---- MODULE Spec2Model ----
(***************************************************************************)
(* The swipe feed of twiix (TikTokFeed.jsx): page fetching, the displayable *)
(* and seen filters, seen marking and the batched seen writes, together     *)
(* with the Seen API store the component talks to; the retry wrapper        *)
(* exponentialBackoff; the fetch pipeline of MemeGallery; the likes and     *)
(* seen endpoints of the API server with their MongoDB collections; the     *)
(* LikesProvider context (LikesContext.jsx); the listing proxy of the API   *)
(* server with its rate limiter and response cache (routes/api.js); and     *)
(* debouncedFetch with its queue of requests under way (utils/apiUtils.js). *)
(* The browser's clock is modelled where a delay decides (the seen flush    *)
(* timer, the gallery's rate-limit backoff).                                *)
(*                                                                          *)
(* One action is one browser task: the handler, the render it causes and    *)
(* the effects of that render (React 18 batches the state updates of one    *)
(* task and runs the effects whose dependencies changed, in declaration     *)
(* order, clean-ups first).                                                 *)
(***************************************************************************)
EXTENDS Integers, Sequences, FiniteSets, TLC

\* ------------------------------------------------------------------ bounds
\* Longest cursor chain of the content source: cursors are 1..MaxCursor.
MaxCursor == 1
\* Number of target changes and user changes in the life of the instance.
MaxNav == 1
\* The user stops acting once the pending seen batch (pendingSeenRef) has
\* this many entries.
MaxPending == 2
\* Longest cursor chain the gallery is served: cursors are 1..MaxGalleryCursor.
MaxGalleryCursor == 2
\* Write requests (POST /likes, POST /seen) the API server is sent in its life.
MaxDbCalls == 2
\* Requests (GET, POST, DELETE /api/likes) one LikesProvider sends in its life.
MaxLikeCalls == 3
\* Calls of debouncedFetch in the life of the page.
MaxFetchCalls == 4
\* Listing requests (GET /reddit/:subreddit) the API server is sent, beyond
\* those that brought it to its initial state.
MaxListingCalls == 2
\* The server's clock (new Date()) runs over 1..MaxTime; 0 is a time before
\* the server started.
MaxTime == 2

\* ------------------------------------------------------- program constants
\* useState(null) for `after`: null, the falsy "no cursor" token.
NoCursor == 0
\* currentIndex >= memes.length - 3
prefetchWindow == 3

\* useUser() without a signed-in user (isSignedIn false or user null).
NoUser == "anonymous"
Users == {"u1"}
UserStates == Users \cup {NoUser}

\* The props of TikTokFeed; "" stands for an undefined prop.
Targets ==
  { [subreddit |-> "memes", username |-> ""],
    [subreddit |-> "pics", username |-> ""] }

\* ------------------------------------------------------------ the posts
Ids == {"p1", "p2", "p3", "p4", "p5", "p6", "p7"}

\* The fields of a listing child that the feed's filter reads. url is
\* represented by its extension ("" when the url has none).
PostData(id) ==
  CASE id = "p1" -> [mediaKind |-> "image", is_gallery |-> FALSE, gallery_data |-> FALSE,
                     media_metadata |-> FALSE, is_video |-> FALSE, post_hint |-> "image",
                     reddit_video |-> FALSE, video_preview |-> FALSE, url |-> "jpg"]
    [] id = "p2" -> [mediaKind |-> "text", is_gallery |-> FALSE, gallery_data |-> FALSE,
                     media_metadata |-> FALSE, is_video |-> FALSE, post_hint |-> "self",
                     reddit_video |-> FALSE, video_preview |-> FALSE, url |-> ""]
    [] id = "p3" -> [mediaKind |-> "video", is_gallery |-> FALSE, gallery_data |-> FALSE,
                     media_metadata |-> FALSE, is_video |-> TRUE, post_hint |-> "hosted:video",
                     reddit_video |-> TRUE, video_preview |-> FALSE, url |-> ""]
    [] id = "p4" -> [mediaKind |-> "gallery", is_gallery |-> TRUE, gallery_data |-> TRUE,
                     media_metadata |-> TRUE, is_video |-> FALSE, post_hint |-> "",
                     reddit_video |-> FALSE, video_preview |-> FALSE, url |-> ""]
    [] id = "p5" -> [mediaKind |-> "link", is_gallery |-> FALSE, gallery_data |-> FALSE,
                     media_metadata |-> FALSE, is_video |-> FALSE, post_hint |-> "link",
                     reddit_video |-> FALSE, video_preview |-> FALSE, url |-> "html"]
    [] OTHER     -> [mediaKind |-> "image", is_gallery |-> FALSE, gallery_data |-> FALSE,
                     media_metadata |-> FALSE, is_video |-> FALSE, post_hint |-> "",
                     reddit_video |-> FALSE, video_preview |-> FALSE, url |-> "png"]

\* The pages (response.data.children, by post id) the content source may
\* answer with.
Pages ==
  { <<"p1", "p2", "p3">>,
    <<"p2">> }

\* ---------------------------------------------------------------- state
VARIABLES
  mounted,         \* a TikTokFeed instance is mounted
  props,           \* its props {subreddit, username}
  user,            \* useUser(): the signed-in user or NoUser
  memes,           \* useState([]): the loaded list (post ids, in order)
  currentIndex,    \* useState(0), 0-based
  isLoadingRef,    \* useRef(false); the isLoading state equals it after every task
  after,           \* useState(null)
  hasMore,         \* useState(true)
  seenIdsRef,      \* useRef(new Set())
  pendingSeenRef,  \* useRef([])
  seenFlushTimer,  \* the pending setTimeout(flushPendingSeen, 3000): {} or {closure}
  lastMarkAt,      \* history: the instant of the latest seen-mark
  fetchReq,        \* the page fetch in flight: {} or {request}
  seenLoads,       \* GET /api/seen requests in flight
  seenPosts,       \* POST /api/seen: the upserts of sent batches not yet applied
  seenStore,       \* the seen_memes collection: user -> feedKey -> ids
  localStorage,    \* browser localStorage: storage key -> ids
  nav,             \* prop and user changes so far
  markLog,         \* history: the (user, feedKey, id) of every seen-mark
  sentLog,         \* history: the (user, feedKey, id) sent to POST /api/seen
  resentLog        \* history: those sent more than once

\* One call of exponentialBackoff(fn, maxRetries, baseDelay) (apiUtils.js).
VARIABLES
  boPc,            \* "idle", "call" (awaiting fn()), "sleep" (awaiting the delay),
                   \* "returned" or "thrown"
  boI,             \* the loop variable i
  boLastError,     \* lastError ("" while undefined)
  boOutcome,       \* the value returned or the error thrown ("" while running)
  boCalls,         \* history: the number of calls of fn
  boErrors,        \* history: the errors of the failed calls, in order
  boDelays         \* history: the delays waited, in order (ms)

\* One MemeGallery instance (part_005), for one subreddit.
VARIABLES
  mgMemes,           \* useState([]): the loaded list (post ids, in order)
  mgIsLoading,       \* useState(false)
  mgAfter,           \* useState(null)
  mgHasMore,         \* useState(true)
  mgSeenIds,         \* useState(new Set())
  mgFetchedUrlPaths, \* useState(new Set()): the cursors of the urls fetched
  mgFirstPageLoaded, \* useState(false)
  mgReq,             \* the calls of exponentialBackoff not settled yet, each
                     \* with the `after` and `seenIds` its callbacks closed over
  mgBackoffTimers    \* pending setTimeout(() => setHasMore(true), RATE_LIMIT_BACKOFF):
                     \* the instants they are due, in the order they were set

\* The API server (server/server.js, server/routes/api.js) and its MongoDB
\* collections.
VARIABLES
  dbInit,          \* initializeDb(): "likes" (about to create the likes indexes),
                   \* "seen" (about to create the seen_memes indexes), "done", "failed"
  likesUnique,     \* the unique index {userId, memeId} of likes exists
  seenUnique,      \* the unique index {userId, feedKey, memeId} of seen_memes exists
  likesCol,        \* the likes collection: a set of documents
  seenCol,         \* the seen_memes collection: a set of documents
  dbNextId,        \* the next _id
  dbNow,           \* the server's clock
  dbOps,           \* the handlers awaiting the database, with their position (rid
                   \* tells two requests of the same content apart)
  dbCalls,         \* write requests received so far
  dbResponse       \* the last response sent, with its request

\* One LikesProvider (src/context/LikesContext.jsx) in one browser.
VARIABLES
  lcIsLoaded,      \* useUser().isLoaded
  lcUser,          \* useUser().user.id; NoUser while not signed in
  lcLikes,         \* useState([]): the like entries, in order
  lcIsLoading,     \* useState(true)
  lcAnon,          \* localStorage 'likes_anonymous': <<>> while absent, else
                   \* << the list stored >>
  lcLoads,         \* the fetches of loadLikes not settled yet
  lcWrites,        \* the fetches of addLike and removeLike not settled yet
  lcRender,        \* an effect has set state: the render it causes, and that
                   \* render's effects, are still to run
  lcCalls,         \* requests sent so far
  lcAnonMarks      \* history: the ids liked (addLike) while nobody was signed in

\* The listing proxy of the API server (GET /reddit/:subreddit in
\* server/routes/api.js) with its rate limiter and its response cache.
VARIABLES
  rpNow,           \* Date.now(), in ms since the server started
  rateLimiter,     \* the Map clientId -> timestamps (<<>> for a client without entry)
  cache,           \* the Map cacheKey -> { data, timestamp }, as the sequence of
                   \* its entries in iteration (insertion) order
  rpPending,       \* the handlers awaiting the upstream fetch
  rpUpstream,      \* history: the requests that called the upstream source
  rpResponse,      \* the last response sent
  rpCalls,         \* listing requests received so far
  rpAdmitted       \* history: per client, the instants of its admitted requests

\* debouncedFetch and its module state (src/utils/apiUtils.js).
VARIABLES
  requestQueue,    \* the Map url -> pending promise (0 for a url without entry)
  requestStats,    \* the counters of requestStats
  dfFetches,       \* the calls of fetch() not settled yet, each with the promise
                   \* (id) built on it and the position of its callbacks
  dfSettled,       \* the promises returned so far: "pending" or their outcome
  dfReturned,      \* history: the calls so far, each with its url and the
                   \* promise it returned
  dfIssued         \* history: the urls of the calls of fetch(), in order

\* The browser's clock, in ms since the feed was opened.
VARIABLES
  feedNow          \* performance.now() as the timers of the page see it

feedVars ==
  << mounted, props, user, memes, currentIndex, isLoadingRef, after, hasMore,
     seenIdsRef, pendingSeenRef, seenFlushTimer, lastMarkAt, fetchReq, seenLoads, seenPosts,
     seenStore, localStorage, nav, markLog, sentLog,
     resentLog >>

boVars == << boPc, boI, boLastError, boOutcome, boCalls, boErrors, boDelays >>

mgVars ==
  << mgMemes, mgIsLoading, mgAfter, mgHasMore, mgSeenIds, mgFetchedUrlPaths,
     mgFirstPageLoaded, mgReq, mgBackoffTimers >>

dbVars ==
  << dbInit, likesUnique, seenUnique, likesCol, seenCol, dbNextId, dbNow, dbOps,
     dbCalls, dbResponse >>

lcVars ==
  << lcIsLoaded, lcUser, lcLikes, lcIsLoading, lcAnon, lcLoads, lcWrites, lcRender,
     lcCalls, lcAnonMarks >>

rpVars ==
  << rpNow, rateLimiter, cache, rpPending, rpUpstream, rpResponse, rpCalls,
     rpAdmitted >>

clockVars == << feedNow >>

dfVars == << requestQueue, requestStats, dfFetches, dfSettled, dfReturned, dfIssued >>

\* What neither the feed nor its retry wrapper touches.
restVars == << mgVars, dbVars, lcVars, rpVars, clockVars, dfVars >>

\* What a step of the feed leaves alone.
nonFeedVars == << boVars, restVars >>

\* What a step of the retry wrapper leaves alone.
nonBackoffVars == << feedVars, restVars >>

\* What a step of the gallery leaves alone.
nonGalleryVars == << feedVars, boVars, dbVars, lcVars, rpVars, clockVars, dfVars >>

\* What a step of the API server or of its database leaves alone.
nonDbVars == << feedVars, boVars, mgVars, lcVars, rpVars, clockVars, dfVars >>

\* What a step of the LikesProvider, or of the likes endpoint serving it,
\* leaves alone.
nonLikesVars ==
  << feedVars, boVars, mgVars, rpVars, clockVars, dfVars, dbInit, likesUnique, seenUnique,
     seenCol, dbNow, dbOps, dbCalls, dbResponse >>

\* What a step of the listing proxy leaves alone.
nonProxyVars == << feedVars, boVars, mgVars, dbVars, lcVars, clockVars, dfVars >>

\* What a call of debouncedFetch, or the settling of its request, leaves alone.
nonFetchVars == << feedVars, boVars, mgVars, dbVars, lcVars, rpVars, clockVars >>

vars == << feedVars, nonFeedVars >>

\* The isLoading state as rendered: set together with isLoadingRef.
isLoading == isLoadingRef

getSeenStorageKey(p) ==
  IF p.username # ""
    THEN <<"seen_memes_user", p.username>>
    ELSE <<"seen_memes_subreddit", IF p.subreddit = "" THEN "memes" ELSE p.subreddit>>

FeedKeys == { getSeenStorageKey(t) : t \in Targets }

\* ------------------------------------------------------- the page filter
UrlIsImage(url) == url \in {"jpeg", "jpg", "gif", "png", "webp"}

\* A bug: only the post's flags and hint are looked at, not its url.
IsDisplayableByHint(data) ==
  \/ data.is_gallery /\ data.gallery_data /\ data.media_metadata
  \/ data.is_video \/ data.post_hint = "hosted:video" \/ data.reddit_video
  \/ data.post_hint = "rich:video" /\ data.video_preview
  \/ data.post_hint = "image"

IsDisplayable(data) ==
  \/ data.is_gallery /\ data.gallery_data /\ data.media_metadata
  \/ data.is_video \/ data.post_hint = "hosted:video" \/ data.reddit_video
  \/ data.post_hint = "rich:video" /\ data.video_preview
  \/ data.post_hint = "image"
  \/ UrlIsImage(data.url)
  \/ data.url = "gifv"
  \/ data.url \in {"mp4", "webm"}

filteredMemes(children) ==
  SelectSeq(children, LAMBDA id : IsDisplayable(PostData(id)))

unseenMemes(children, seenSet) ==
  SelectSeq(filteredMemes(children), LAMBDA id : id \notin seenSet)

\* -------------------------------------------------- the refs, as a record
\* The effects below are functions of the mutable refs and of the stores
\* they write; R() packs them.
R(seen, pending, timer, local, posts, marks, sent, resent, markedAt) ==
  [seenIdsRef |-> seen, pendingSeenRef |-> pending, seenFlushTimer |-> timer,
   localStorage |-> local, seenPosts |-> posts, markLog |-> marks, sentLog |-> sent,
   resentLog |-> resent, lastMarkAt |-> markedAt]

Refs ==
  R(seenIdsRef, pendingSeenRef, seenFlushTimer, localStorage, seenPosts, markLog, sentLog,
    resentLog, lastMarkAt)

SeqIds(batch) == { batch[j] : j \in DOMAIN batch }

SeenRecord(u, key, id) == [userId |-> u, feedKey |-> key, memeId |-> id]

\* The ids that occur more than once in a batch.
Repeated(batch) ==
  { batch[i] : i \in { j \in DOMAIN batch : \E k \in DOMAIN batch : k # j /\ batch[k] = batch[j] } }

\* fetch('/api/seen', {method: 'POST', body: {userId, feedKey, memeIds}}),
\* and navigator.sendBeacon with the same body. The handler turns the batch
\* into one upsert per id (bulkWrite, ordered: false).
PostSeen(u, key, batch, r) ==
  LET records == { SeenRecord(u, key, id) : id \in SeqIds(batch) }
  IN  [r EXCEPT !.seenPosts = @ \cup records,
                !.sentLog = @ \cup records,
                !.resentLog = @ \cup (records \cap r.sentLog)
                                \cup { SeenRecord(u, key, id) : id \in Repeated(batch) }]

\* loadSeenIds up to its first await: the anonymous path runs to completion,
\* the signed-in path only issues the request.
loadSeenIdsSync(u, key, r) ==
  IF u # NoUser
    THEN r
    ELSE [r EXCEPT !.seenIdsRef = r.localStorage[key]]

loadSeenIdsRequest(u, key) ==
  IF u # NoUser THEN { [userId |-> u, feedKey |-> key] } ELSE {}

persistSeenIds(u, key, setToPersist, local) ==
  IF u # NoUser THEN local ELSE [local EXCEPT ![key] = setToPersist]

flushPendingSeen(u, key, r) ==
  IF u = NoUser \/ Len(r.pendingSeenRef) = 0
    THEN r
    ELSE [PostSeen(u, key, r.pendingSeenRef, r) EXCEPT !.pendingSeenRef = <<>>]

\* setTimeout(flushPendingSeen, 3000)
flushDelay == 3000

\* A bug: a throttle, the pending timer is kept and no new one is started.
MarkSeenEffectThrottled(ms, idx, u, key, r) ==
  IF idx + 1 > Len(ms)
    THEN r
    ELSE LET memeId == ms[idx + 1]
             updatedSeen == r.seenIdsRef \cup {memeId}
         IN  IF memeId \in r.seenIdsRef
               THEN r
               ELSE [r EXCEPT
                       !.seenIdsRef = updatedSeen,
                       !.localStorage = persistSeenIds(u, key, updatedSeen, @),
                       !.pendingSeenRef = Append(@, memeId),
                       !.seenFlushTimer =
                          IF @ # {} THEN @
                          ELSE { [user |-> u, feedKey |-> key,
                                  due |-> feedNow + flushDelay] },
                       !.lastMarkAt = feedNow,
                       !.markLog = @ \cup { SeenRecord(u, key, memeId) }]

\* The mark-seen effect, run for a render with list ms and index idx.
MarkSeenEffect(ms, idx, u, key, r) ==
  IF idx + 1 > Len(ms)
    THEN r
    ELSE LET memeId == ms[idx + 1]
             updatedSeen == r.seenIdsRef \cup {memeId}
         IN  IF memeId \in r.seenIdsRef
               THEN r
               ELSE [r EXCEPT
                       !.seenIdsRef = updatedSeen,
                       !.localStorage = persistSeenIds(u, key, updatedSeen, @),
                       !.pendingSeenRef = Append(@, memeId),
                       !.seenFlushTimer = { [user |-> u, feedKey |-> key,
                                              due |-> feedNow + flushDelay] },
                       !.lastMarkAt = feedNow,
                       !.markLog = @ \cup { SeenRecord(u, key, memeId) }]

\* The clean-up of the teardown effect, with the user and key of the render
\* that registered it.
TeardownCleanup(u, key, r) ==
  LET r1 == [r EXCEPT !.seenFlushTimer = {}]
  IN  IF Len(r1.pendingSeenRef) > 0 /\ u # NoUser
        THEN [PostSeen(u, key, r1.pendingSeenRef, r1) EXCEPT !.pendingSeenRef = <<>>]
        ELSE r1

\* ------------------------------------------------------------ page fetch
F(busy, req) == [isLoadingRef |-> busy, fetchReq |-> req]

\* A bug: fetchMemes does not look at isLoadingRef.
fetchMemesUnguarded(afterToken, p, f) ==
  F(TRUE, f.fetchReq \cup { [props |-> p, afterToken |-> afterToken] })

\* fetchMemes(afterToken) up to its await, for the props p of its closure.
fetchMemes(afterToken, p, f) ==
  IF f.isLoadingRef
    THEN f
    ELSE F(TRUE, { [props |-> p, afterToken |-> afterToken] })

\* A bug: the next page is fetched only when the list has posts.
LoadMoreEffectNeedsPosts(idx, len, more, loading, aft, p, f) ==
  IF len > 0 /\ idx >= len - prefetchWindow /\ more /\ ~loading
    THEN fetchMemes(aft, p, f)
    ELSE f

\* A bug: the load-more effect does not look at hasMore.
LoadMoreEffectIgnoresHasMore(idx, len, more, loading, aft, p, f) ==
  IF idx >= len - prefetchWindow /\ ~loading
    THEN fetchMemes(aft, p, f)
    ELSE f

\* A bug: the read-ahead window is one post too wide.
LoadMoreEffectWiderWindow(idx, len, more, loading, aft, p, f) ==
  IF idx >= len - (prefetchWindow + 1) /\ more /\ ~loading
    THEN fetchMemes(aft, p, f)
    ELSE f

\* The load-more effect, run for a render with these values.
LoadMoreEffect(idx, len, more, loading, aft, p, f) ==
  IF idx >= len - prefetchWindow /\ more /\ ~loading
    THEN fetchMemes(aft, p, f)
    ELSE f

SetRefs(r) ==
  /\ seenIdsRef' = r.seenIdsRef
  /\ pendingSeenRef' = r.pendingSeenRef
  /\ seenFlushTimer' = r.seenFlushTimer
  /\ lastMarkAt' = r.lastMarkAt
  /\ localStorage' = r.localStorage
  /\ seenPosts' = r.seenPosts
  /\ markLog' = r.markLog
  /\ sentLog' = r.sentLog
  /\ resentLog' = r.resentLog

SetFetch(f) ==
  /\ isLoadingRef' = f.isLoadingRef
  /\ fetchReq' = f.fetchReq

\* ----------------------------------------------------------------- Init
\* exponentialBackoff not called ("idle") or just called ("call").
BackoffAt(pc) ==
  /\ boPc = pc
  /\ boI = 0
  /\ boLastError = ""
  /\ boOutcome = ""
  /\ boCalls = 0
  /\ boErrors = <<>>
  /\ boDelays = <<>>

EmptyStore == [k \in FeedKeys |-> {}]
SeededStore == [EmptyStore EXCEPT ![<<"seen_memes_subreddit", "memes">>] = {"p1"}]

\* The instance right after it is mounted: the first render and its effects
\* (loadSeenIds, the reset effect with fetchMemes(), load-more, mark-seen).
MountRefs(p, u, local) ==
  LET key == getSeenStorageKey(p)
      r1 == loadSeenIdsSync(u, key, R({}, <<>>, {}, local, {}, {}, {}, {}, 0))
  IN  MarkSeenEffect(<<>>, 0, u, key, r1)

MountFetch(p) ==
  LoadMoreEffect(0, 0, TRUE, FALSE, NoCursor, p, fetchMemes(NoCursor, p, F(FALSE, {})))

\* The gallery right after it is mounted: the reset effect has run and its
\* fetchMemes() has issued the request of the first page.
GalleryMounted ==
  /\ mgMemes = <<>>
  /\ mgIsLoading = TRUE
  /\ mgAfter = NoCursor
  /\ mgHasMore = TRUE
  /\ mgSeenIds = {}
  /\ mgFetchedUrlPaths = {NoCursor}
  /\ mgFirstPageLoaded = FALSE
  /\ mgReq = {[after |-> NoCursor, seenIds |-> {}]}
  /\ mgBackoffTimers = <<>>

\* The constants of the listing proxy.
CACHE_DURATION == 300000
RATE_LIMIT_WINDOW == 60000
MAX_REQUESTS_PER_WINDOW == 30
\* if (cache.size > 100)
CacheCapacity == 100
\* retryAfter: 60
retryAfter == 60

\* The clients (req.ip) that send listing requests, and those that have sent
\* the requests before the initial state.
Clients == {"c1", "c2"}
EarlierClients == {"e1", "e2", "e3", "e4"}

\* A request parameter is a string, represented by the sequence of its
\* pieces; "-" is a piece of its own.
Query(subreddit, sort, limit, aft) ==
  [subreddit |-> subreddit, sort |-> sort, limit |-> limit, after |-> aft]

\* `${subreddit}-${sort}-${limit}-${after}`
getCacheKey(subreddit, sort, limit, aft) ==
  subreddit \o <<"-">> \o sort \o <<"-">> \o limit \o <<"-">> \o aft

\* The first page of subreddit number n, with the default sort and limit.
EarlierQuery(n) == Query(<<ToString(n)>>, <<"hot">>, <<"25">>, <<>>)

\* responseData of a listing fetched from the upstream source: the request
\* it answers and the instant it was fetched at.
Fetched(query, now) == [of |-> query, at |-> now]

\* n timestamps of the instant t.
Stamps(n, t) == [i \in 1..n |-> t]

\* The listing proxy when the module is loaded (both Maps empty), or warm:
\* within the first millisecond e1..e4 have fetched the first page of
\* CacheCapacity subreddits between them, which are cached in that order, and
\* c1 has sent all but one of the requests of its window, for cached pages.
ProxyStarted(warm) ==
  /\ rpNow = 0
  /\ rateLimiter = [c \in Clients \cup EarlierClients |->
                      IF ~warm THEN <<>>
                      ELSE IF c = "c1" THEN Stamps(MAX_REQUESTS_PER_WINDOW - 1, 0)
                      ELSE IF c \in {"e1", "e2", "e3"} THEN Stamps(MAX_REQUESTS_PER_WINDOW, 0)
                      ELSE IF c = "e4"
                        THEN Stamps(CacheCapacity - 3 * MAX_REQUESTS_PER_WINDOW, 0)
                      ELSE <<>>]
  /\ cache = IF ~warm THEN <<>>
             ELSE [n \in 1..CacheCapacity |->
                     LET q == EarlierQuery(n)
                     IN  [key |-> getCacheKey(q.subreddit, q.sort, q.limit, q.after),
                          data |-> Fetched(q, 0), timestamp |-> 0]]
  /\ rpPending = {}
  /\ rpUpstream = {}
  /\ rpResponse = [rid |-> 0, status |-> 0, body |-> Fetched(EarlierQuery(0), 0),
                   retryAfter |-> 0]
  /\ rpCalls = 0
  /\ rpAdmitted = [c \in Clients |-> rateLimiter[c]]

\* The LikesProvider right after it is mounted in a browser that has never
\* stored likes: Clerk has not loaded the auth state yet, so both effects
\* have returned at once.
LikesProviderMounted ==
  /\ lcIsLoaded = FALSE
  /\ lcUser = NoUser
  /\ lcLikes = <<>>
  /\ lcIsLoading = TRUE
  /\ lcAnon = <<>>
  /\ lcLoads = {}
  /\ lcWrites = {}
  /\ lcRender = FALSE
  /\ lcCalls = 0
  /\ lcAnonMarks = {}

\* requestQueue.get(url) of a url without entry.
NoPromise == 0

\* The urls debouncedFetch is called with.
Urls == {"/r/memes.json?limit=25", "/r/memes.json?after=t3_a&limit=25"}

\* apiUtils.js right after the module was loaded.
ApiUtilsLoaded ==
  /\ requestQueue = [url \in Urls |-> NoPromise]
  /\ requestStats = [totalRequests |-> 0, successfulRequests |-> 0, failedRequests |-> 0,
                     rateLimitedRequests |-> 0, cachedRequests |-> 0]
  /\ dfFetches = {}
  /\ dfSettled = <<>>
  /\ dfReturned = <<>>
  /\ dfIssued = <<>>

\* No response sent yet.
NoResponse == [req |-> [op |-> "none"], status |-> 0, body |-> ""]

\* The server process right after server.js has run: it listens, while
\* initializeDb() (not awaited) has connected and is about to create the
\* indexes. empty tells whether the database is a new one; one that an
\* earlier run has initialized has its indexes, and holds a like and a seen
\* record of that time.
ServerStarted(empty) ==
  /\ dbInit = IF empty THEN "likes" ELSE "done"
  /\ likesUnique = ~empty
  /\ seenUnique = ~empty
  /\ likesCol = IF empty THEN {}
                ELSE {[id |-> 0, userId |-> "u1", memeId |-> "p2",
                       memeData |-> [id |-> "p2", rev |-> 1], createdAt |-> 0]}
  /\ seenCol = IF empty THEN {}
               ELSE {[id |-> 0, userId |-> "u1", feedKey |-> "seen_memes_subreddit_memes",
                      memeId |-> "p2", createdAt |-> 0]}
  /\ dbNextId = 1
  /\ dbNow = 1
  /\ dbOps = {}
  /\ dbCalls = 0
  /\ dbResponse = NoResponse

InitOf(u, local, empty, warm) ==
  /\ mounted = TRUE
  /\ props = [subreddit |-> "memes", username |-> ""]
  /\ user = u
  /\ memes = <<>>
  /\ currentIndex = 0
  /\ after = NoCursor
  /\ hasMore = TRUE
  /\ seenStore = [v \in Users |-> SeededStore]
  /\ LET r == MountRefs(props, u, local)
     IN  /\ seenIdsRef = r.seenIdsRef
         /\ pendingSeenRef = r.pendingSeenRef
         /\ seenFlushTimer = r.seenFlushTimer
         /\ lastMarkAt = r.lastMarkAt
         /\ localStorage = r.localStorage
         /\ seenPosts = r.seenPosts
         /\ markLog = r.markLog
         /\ sentLog = r.sentLog
         /\ resentLog = r.resentLog
  /\ isLoadingRef = MountFetch(props).isLoadingRef
  /\ fetchReq = MountFetch(props).fetchReq
  /\ seenLoads = loadSeenIdsRequest(u, getSeenStorageKey(props))
  /\ nav = 0
  /\ feedNow = 0
  /\ BackoffAt("idle")
  /\ GalleryMounted
  /\ LikesProviderMounted
  /\ ServerStarted(empty)
  /\ ProxyStarted(warm)
  /\ ApiUtilsLoaded

\* ... with the listing proxy as the module load leaves it.
InitWith(u, local, empty) == InitOf(u, local, empty, FALSE)

\* ... with a database that an earlier run of the server has initialized.
InitFrom(u, local) == InitWith(u, local, FALSE)

Init == \E u \in UserStates : InitFrom(u, SeededStore)

\* -------------------------------------------------------------- actions
\* The route parameter changes while the instance stays mounted.
ChangeTarget(t) ==
  /\ mounted
  /\ Len(pendingSeenRef) < MaxPending
  /\ t # props
  /\ nav < MaxNav
  /\ LET oldKey == getSeenStorageKey(props)
         newKey == getSeenStorageKey(t)
         r1 == TeardownCleanup(user, oldKey, Refs)
         r2 == loadSeenIdsSync(user, newKey, r1)
         f1 == fetchMemes(NoCursor, t, F(isLoadingRef, fetchReq))
         f2 == LoadMoreEffect(currentIndex, Len(memes), hasMore, isLoading, after, t, f1)
         r3 == MarkSeenEffect(memes, currentIndex, user, newKey, r2)
         \* the render with the reset state
         f3 == LoadMoreEffect(0, 0, TRUE, f2.isLoadingRef, NoCursor, t, f2)
         r4 == MarkSeenEffect(<<>>, 0, user, newKey, r3)
     IN  /\ SetRefs(r4)
         /\ SetFetch(f3)
         /\ seenLoads' = seenLoads \cup loadSeenIdsRequest(user, newKey)
  /\ props' = t
  /\ memes' = <<>>
  /\ currentIndex' = 0
  /\ after' = NoCursor
  /\ hasMore' = TRUE
  /\ nav' = nav + 1
  /\ UNCHANGED << mounted, user, seenStore >>
  /\ UNCHANGED nonFeedVars

\* Clerk reports another user state (sign-in, sign-out).
ChangeUser(u) ==
  /\ mounted
  /\ Len(pendingSeenRef) < MaxPending
  /\ u # user
  /\ nav < MaxNav
  /\ LET key == getSeenStorageKey(props)
         r1 == TeardownCleanup(user, key, Refs)
         r2 == loadSeenIdsSync(u, key, r1)
         r3 == MarkSeenEffect(memes, currentIndex, u, key, r2)
     IN  /\ SetRefs(r3)
         /\ seenLoads' = seenLoads \cup loadSeenIdsRequest(u, key)
  /\ user' = u
  /\ nav' = nav + 1
  /\ UNCHANGED << mounted, props, memes, currentIndex, isLoadingRef, after, hasMore,
                  fetchReq, seenStore >>
  /\ UNCHANGED nonFeedVars

\* A bug: the forward gesture is allowed on the last post too.
nextIndexPastEnd(d, idx, len) ==
  IF d = 1 /\ idx < len THEN idx + 1
  ELSE IF d = -1 /\ idx > 0 THEN idx - 1
  ELSE idx

\* The index after a gesture in direction d, from index idx of a list of
\* len posts: the guards around setCurrentIndex in the three handlers.
nextIndex(d, idx, len) ==
  IF d = 1 /\ idx < len - 1 THEN idx + 1
  ELSE IF d = -1 /\ idx > 0 THEN idx - 1
  ELSE idx

\* A swipe, key or wheel gesture: onTouchEnd, handleKeyDown, handleWheel,
\* each run with the index and list of the latest render.
Advance(d) ==
  /\ mounted
  /\ Len(pendingSeenRef) < MaxPending
  /\ LET idx == nextIndex(d, currentIndex, Len(memes))
         key == getSeenStorageKey(props)
     IN  /\ idx # currentIndex
         /\ currentIndex' = idx
         /\ SetFetch(LoadMoreEffect(idx, Len(memes), hasMore, isLoading, after, props,
                                    F(isLoadingRef, fetchReq)))
         /\ SetRefs(MarkSeenEffect(memes, idx, user, key, Refs))
  /\ UNCHANGED << mounted, props, user, memes, after, hasMore, seenLoads, seenStore, nav >>
  /\ UNCHANGED nonFeedVars

\* The Retry button of the empty state: onClick={() => fetchMemes()}.
Retry ==
  /\ mounted
  /\ Len(memes) = 0
  /\ ~isLoading
  /\ SetFetch(fetchMemes(NoCursor, props, F(isLoadingRef, fetchReq)))
  /\ UNCHANGED << mounted, props, user, memes, currentIndex, after, hasMore, seenIdsRef,
                  pendingSeenRef, seenFlushTimer, lastMarkAt, seenLoads, seenPosts, seenStore,
                  localStorage, nav, markLog, sentLog, resentLog >>
  /\ UNCHANGED nonFeedVars

\* setHasMore(!!response.data.after)
hasMoreOf(nextAfter) == nextAfter # NoCursor

\* The cursor the content source may return for a request after cursor k.
NextCursors(k) == {NoCursor} \cup ({k + 1} \cap (1..MaxCursor))

\* The body of fetchMemes after its await, for a listing with these
\* children and data.after, `more` being the value given to setHasMore;
\* then the render and its load-more and mark-seen effects.
ListingHandled(children, nextAfter, more) ==
  /\ mounted
  /\ \E req \in fetchReq :
       /\ nextAfter \in NextCursors(req.afterToken)
       /\ LET newMemes == memes \o unseenMemes(children, seenIdsRef)
              key == getSeenStorageKey(props)
          IN  /\ memes' = newMemes
              /\ after' = nextAfter
              /\ hasMore' = more
              /\ SetFetch(LoadMoreEffect(currentIndex, Len(newMemes), more, FALSE,
                                         nextAfter, props, F(FALSE, {})))
              /\ SetRefs(MarkSeenEffect(newMemes, currentIndex, user, key, Refs))
  /\ UNCHANGED << mounted, props, user, currentIndex, seenLoads, seenStore, nav >>

\* A bug: a page of which nothing survives the filters ends the feed.
FetchResponseEndsOnEmptyPage(children, nextAfter) ==
  /\ ListingHandled(children, nextAfter,
                    hasMoreOf(nextAfter) /\ unseenMemes(children, seenIdsRef) # <<>>)
  /\ UNCHANGED nonFeedVars

\* The page fetch resolves with a listing: children and data.after.
FetchResponse(children, nextAfter) ==
  /\ ListingHandled(children, nextAfter, hasMoreOf(nextAfter))
  /\ UNCHANGED nonFeedVars

\* A bug: the catch block throws the loaded posts away.
NothingAppendedClearsList ==
  /\ mounted
  /\ fetchReq # {}
  /\ memes' = <<>>
  /\ currentIndex' = 0
  /\ after' = NoCursor
  /\ SetFetch(F(FALSE, {}))
  /\ UNCHANGED << mounted, props, user, hasMore, seenIdsRef,
                  pendingSeenRef, seenFlushTimer, lastMarkAt, seenLoads, seenPosts, seenStore,
                  localStorage, nav, markLog, sentLog, resentLog >>

\* What fetchMemes does when nothing is appended: the try block is left before
\* setMemes (no data.children) or by the catch; finally clears the loading flag.
NothingAppended ==
  /\ mounted
  /\ fetchReq # {}
  /\ SetFetch(LoadMoreEffect(currentIndex, Len(memes), hasMore, FALSE, after, props,
                             F(FALSE, {})))
  /\ UNCHANGED << mounted, props, user, memes, currentIndex, after, hasMore, seenIdsRef,
                  pendingSeenRef, seenFlushTimer, lastMarkAt, seenLoads, seenPosts, seenStore,
                  localStorage, nav, markLog, sentLog, resentLog >>

\* The page fetch resolves with a body that has no data.children.
FetchMalformed ==
  /\ NothingAppended
  /\ UNCHANGED nonFeedVars

\* exponentialBackoff rejects (its last attempt failed): catch, finally.
FetchFails ==
  /\ NothingAppended
  /\ UNCHANGED nonFeedVars

\* GET /api/seen answers (ok) or fails; the handler reads the collection.
SeenLoadResponse(req, ok) ==
  /\ mounted
  /\ req \in seenLoads
  /\ seenLoads' = seenLoads \ {req}
  /\ seenIdsRef' = IF ok THEN seenStore[req.userId][req.feedKey] ELSE {}
  /\ UNCHANGED << mounted, props, user, memes, currentIndex, isLoadingRef, after, hasMore,
                  pendingSeenRef, seenFlushTimer, lastMarkAt, fetchReq, seenPosts, seenStore,
                  localStorage, nav, markLog, sentLog, resentLog >>
  /\ UNCHANGED nonFeedVars

\* The 3 s timer fires: flushPendingSeen of the render that set it.
TimerFires ==
  /\ mounted
  /\ \E c \in seenFlushTimer :
       SetRefs([flushPendingSeen(c.user, c.feedKey, Refs) EXCEPT !.seenFlushTimer = {}])
  /\ UNCHANGED << mounted, props, user, memes, currentIndex, isLoadingRef, after, hasMore,
                  fetchReq, seenLoads, seenStore, nav >>
  /\ UNCHANGED nonFeedVars

\* The instance is unmounted (route left): clean-ups run, responses that are
\* still in flight reach no live component.
Unmount ==
  /\ mounted
  /\ LET r1 == TeardownCleanup(user, getSeenStorageKey(props), Refs)
     IN  SetRefs([r1 EXCEPT !.seenIdsRef = {}, !.pendingSeenRef = <<>>])
  /\ mounted' = FALSE
  /\ memes' = <<>>
  /\ currentIndex' = 0
  /\ after' = NoCursor
  /\ hasMore' = TRUE
  /\ isLoadingRef' = FALSE
  /\ fetchReq' = {}
  /\ seenLoads' = {}
  /\ UNCHANGED << props, user, seenStore, nav >>
  /\ UNCHANGED nonFeedVars

\* One upsert of a POST /api/seen batch is applied: insert-if-absent
\* ($setOnInsert with upsert: true).
SeenUpsert(q) ==
  /\ q \in seenPosts
  /\ seenStore' = [seenStore EXCEPT ![q.userId][q.feedKey] = @ \cup {q.memeId}]
  /\ seenPosts' = seenPosts \ {q}
  /\ UNCHANGED << mounted, props, user, memes, currentIndex, isLoadingRef, after, hasMore,
                  seenIdsRef, pendingSeenRef, seenFlushTimer, lastMarkAt, fetchReq, seenLoads,
                  localStorage, nav, markLog, sentLog, resentLog >>
  /\ UNCHANGED nonFeedVars

\* The steps of a run in which every page request is answered with a listing.
NextFetchesSucceed ==
  \/ \E t \in Targets : ChangeTarget(t)
  \/ \E u \in UserStates : ChangeUser(u)
  \/ \E d \in {1, -1} : Advance(d)
  \/ Retry
  \/ \E children \in Pages, a \in 0..MaxCursor : FetchResponse(children, a)
  \/ \E req \in seenLoads, ok \in BOOLEAN : SeenLoadResponse(req, ok)
  \/ TimerFires
  \/ Unmount
  \/ \E q \in seenPosts : SeenUpsert(q)

Next ==
  \/ NextFetchesSucceed
  \/ FetchMalformed
  \/ FetchFails

Spec == Init /\ [][Next]_vars

\* -------------------------------------------------------- debouncedFetch
\* How fetch() settles: with a response of this status, or rejected.
FetchResults == {"200", "429", "500", "rejected"}

\* A bug: the queue is not looked at.
pendingForNone(url) == NoPromise

\* requestQueue.has(url) / requestQueue.get(url)
pendingFor(url) == requestQueue[url]

\* debouncedFetch(url): the pending promise of the url, or a new request.
debouncedFetch(url) ==
  /\ Len(dfReturned) < MaxFetchCalls
  /\ IF pendingFor(url) # NoPromise
       THEN /\ requestStats' = [requestStats EXCEPT !.cachedRequests = @ + 1]
            /\ dfReturned' = Append(dfReturned, [url |-> url, promise |-> pendingFor(url)])
            /\ UNCHANGED << requestQueue, dfFetches, dfSettled, dfIssued >>
       ELSE LET requestPromise == Len(dfSettled) + 1
            IN  /\ dfFetches' = dfFetches \cup
                     { [promise |-> requestPromise, url |-> url, at |-> "fetch",
                        outcome |-> "pending"] }
                /\ dfSettled' = Append(dfSettled, "pending")
                /\ dfIssued' = Append(dfIssued, url)
                /\ requestQueue' = [requestQueue EXCEPT ![url] = requestPromise]
                /\ dfReturned' = Append(dfReturned, [url |-> url, promise |-> requestPromise])
                /\ UNCHANGED requestStats
  /\ UNCHANGED nonFetchVars

\* What the .then callback makes of a response, or the rejection passed on.
thenOutcome(result) ==
  CASE result = "200" -> "response"
    [] result = "429" -> "Rate limited by Reddit API"
    [] result = "500" -> "HTTP 500"
    [] OTHER -> "Failed to fetch"

thenStats(result, stats) ==
  CASE result = "200" -> [stats EXCEPT !.totalRequests = @ + 1,
                                        !.successfulRequests = @ + 1]
    [] result = "429" -> [stats EXCEPT !.totalRequests = @ + 1,
                                        !.rateLimitedRequests = @ + 1]
    [] result = "500" -> [stats EXCEPT !.totalRequests = @ + 1,
                                        !.failedRequests = @ + 1]
    [] OTHER -> stats

\* fetch() settles: the .then callback runs (it is skipped by a rejection).
fetchSettles(f, result) ==
  /\ f \in dfFetches
  /\ f.at = "fetch"
  /\ requestStats' = thenStats(result, requestStats)
  /\ dfFetches' = (dfFetches \ {f}) \cup
                     { [f EXCEPT !.at = "finally", !.outcome = thenOutcome(result)] }
  /\ UNCHANGED << requestQueue, dfSettled, dfReturned, dfIssued >>
  /\ UNCHANGED nonFetchVars

\* The .finally callback: requestQueue.delete(url); the promise returned to
\* the callers settles with the outcome of the .then.
finallyRuns(f) ==
  /\ f \in dfFetches
  /\ f.at = "finally"
  /\ requestQueue' = [requestQueue EXCEPT ![f.url] = NoPromise]
  /\ dfSettled' = [dfSettled EXCEPT ![f.promise] = f.outcome]
  /\ dfFetches' = dfFetches \ {f}
  /\ UNCHANGED << requestStats, dfReturned, dfIssued >>
  /\ UNCHANGED nonFetchVars

InitFetch == InitFrom(NoUser, SeededStore)

NextFetch ==
  \/ \E url \in Urls : debouncedFetch(url)
  \/ \E f \in dfFetches, result \in FetchResults : fetchSettles(f, result)
  \/ \E f \in dfFetches : finallyRuns(f)

SpecFetch == InitFetch /\ [][NextFetch]_vars

\* ---------------------------------------------- the feed with its clock
\* The instants the browser's clock takes: around one and two timer delays.
DebounceInstants == {0, flushDelay - 1, flushDelay, 2 * flushDelay - 1}

\* Time passes.
FeedTick(t) ==
  /\ t > feedNow
  /\ feedNow' = t
  /\ UNCHANGED << feedVars, boVars, mgVars, dbVars, lcVars, rpVars, dfVars >>

\* The timer fires when its delay has passed.
TimerElapses ==
  /\ \E c \in seenFlushTimer : feedNow >= c.due
  /\ TimerFires

NextDebounce ==
  \/ \E t \in DebounceInstants : FeedTick(t)
  \/ \E t \in Targets : ChangeTarget(t)
  \/ \E u \in UserStates : ChangeUser(u)
  \/ \E d \in {1, -1} : Advance(d)
  \/ \E children \in Pages, a \in 0..MaxCursor : FetchResponse(children, a)
  \/ \E req \in seenLoads, ok \in BOOLEAN : SeenLoadResponse(req, ok)
  \/ TimerElapses
  \/ Unmount

SpecDebounce == Init /\ [][NextDebounce]_vars

\* A content source whose pages are longer than the read-ahead window, read
\* by an anonymous visitor.
LongPages ==
  { <<"p1", "p3", "p4", "p6", "p7">>,
    <<"p3", "p2", "p4", "p6", "p1">>,
    <<"p1", "p5", "p7">>,
    <<"p2", "p5">> }

NextReadAhead ==
  \/ \E t \in Targets : ChangeTarget(t)
  \/ \E d \in {1, -1} : Advance(d)
  \/ Retry
  \/ \E children \in LongPages, a \in 0..MaxCursor : FetchResponse(children, a)
  \/ TimerFires
  \/ Unmount
  \/ FetchMalformed
  \/ FetchFails

SpecReadAhead == InitFrom(NoUser, SeededStore) /\ [][NextReadAhead]_vars

\* Some page response with a listing is handled.
FetchAny == \E children \in Pages, a \in 0..MaxCursor : FetchResponse(children, a)

\* Page fetches succeed: no request fails, and a request in flight is
\* answered with a listing at last.
SpecLive == Init /\ [][NextFetchesSucceed]_vars /\ WF_vars(FetchAny)

\* ------------------------------------------------ the retry wrapper
\* exponentialBackoff(..., 3, 1000) in fetchMemes.
maxRetries == 3
baseDelay == 1000

\* The errors fn may throw: debouncedFetch's 429 and !ok errors, and a
\* network failure of fetch.
FetchErrors == {"Rate limited by Reddit API", "HTTP 500", "Failed to fetch"}

\* Math.random() * 1000, by cases.
Jitters == {0, 500, 999}

\* What fn resolves with: a listing, or a body without data.children.
Bodies == {"listing", "malformed"}

\* A bug: the loop gives up one attempt earlier.
isLastAttemptEarly(i, retries) == i >= retries - 1

\* if (i === maxRetries) break
isLastAttempt(i, retries) == i = retries

\* baseDelay * Math.pow(2, i) + jitter
backoffDelay(i, base, jitter) == base * (2 ^ i) + jitter

\* fetchMemes calls exponentialBackoff: i = 0 and the first await fn().
BackoffCalled ==
  /\ boPc = "idle"
  /\ fetchReq # {}
  /\ boPc' = "call"
  /\ boI' = 0 /\ boLastError' = "" /\ boOutcome' = "" /\ boCalls' = 0
  /\ boErrors' = <<>> /\ boDelays' = <<>>
  /\ UNCHANGED nonBackoffVars

\* await fn() resolves with body: return.
AttemptSucceeds(body) ==
  /\ boPc = "call"
  /\ boCalls' = boCalls + 1
  /\ boOutcome' = body
  /\ boPc' = "returned"
  /\ UNCHANGED << boI, boLastError, boErrors, boDelays >>
  /\ UNCHANGED nonBackoffVars

\* await fn() rejects with error: the catch block, up to the break or to
\* the await of the delay; after the loop, throw lastError.
AttemptFails(error, jitter) ==
  /\ boPc = "call"
  /\ boCalls' = boCalls + 1
  /\ boErrors' = Append(boErrors, error)
  /\ boLastError' = error
  /\ IF isLastAttempt(boI, maxRetries)
       THEN /\ boPc' = "thrown"
            /\ boOutcome' = error
            /\ boDelays' = boDelays
       ELSE /\ boPc' = "sleep"
            /\ boOutcome' = boOutcome
            /\ boDelays' = Append(boDelays, backoffDelay(boI, baseDelay, jitter))
  /\ UNCHANGED boI
  /\ UNCHANGED nonBackoffVars

\* The delay is over: i++ and the next await fn().
DelayElapses ==
  /\ boPc = "sleep"
  /\ boI' = boI + 1
  /\ boPc' = "call"
  /\ UNCHANGED << boLastError, boOutcome, boCalls, boErrors, boDelays >>
  /\ UNCHANGED nonBackoffVars

InitBackoff == InitFrom(NoUser, SeededStore)

NextBackoff ==
  \/ BackoffCalled
  \/ \E body \in Bodies : AttemptSucceeds(body)
  \/ \E error \in FetchErrors, jitter \in Jitters : AttemptFails(error, jitter)
  \/ DelayElapses

SpecBackoff == InitBackoff /\ [][NextBackoff]_vars

\* ---------------------------------- fetchMemes around the retry wrapper
\* The awaited call is over; what it did stays on record until the next call.
BackoffSettled ==
  /\ boPc' = "idle"
  /\ UNCHANGED << boI, boLastError, boOutcome, boCalls, boErrors, boDelays >>

\* const data = await exponentialBackoff(...) gets a listing.
fetchMemesResolved(children, nextAfter) ==
  /\ boPc = "returned" /\ boOutcome = "listing"
  /\ ListingHandled(children, nextAfter, hasMoreOf(nextAfter))
  /\ BackoffSettled
  /\ UNCHANGED restVars

\* ... gets a body that fails `data.data && data.data.children`.
fetchMemesNoChildren ==
  /\ boPc = "returned" /\ boOutcome = "malformed"
  /\ NothingAppended
  /\ BackoffSettled
  /\ UNCHANGED restVars

\* ... throws: catch (error) { console.error(...) } finally { ... }.
fetchMemesCaught ==
  /\ boPc = "thrown"
  /\ NothingAppended
  /\ BackoffSettled
  /\ UNCHANGED restVars

\* An anonymous visitor who has seen nothing yet.
InitRetry == InitFrom(NoUser, EmptyStore)

\* One feed, one target: at most one page request at a time, each going
\* through the wrapper.
NextRetry ==
  \/ BackoffCalled
  \/ \E body \in Bodies : AttemptSucceeds(body)
  \/ AttemptFails("HTTP 500", 0)
  \/ DelayElapses
  \/ \E children \in Pages, a \in 0..MaxCursor : fetchMemesResolved(children, a)
  \/ fetchMemesNoChildren
  \/ fetchMemesCaught
  \/ \E d \in {1, -1} : Advance(d)
  \/ Retry
  \/ TimerFires

SpecRetry == InitRetry /\ [][NextRetry]_vars

\* ------------------------------------------------------- MemeGallery
\* REDDIT_API_CONFIG.RATE_LIMIT_BACKOFF, in ms.
RATE_LIMIT_BACKOFF == 300000

\* The listings (data.children, by post id) the gallery may be answered with.
GalleryPages ==
  { <<"p1", "p2">>,
    <<"p2", "p3">>,
    <<"p4">>,
    <<"p5", "p1">>,
    <<>> }

\* The cursor the content source may return to the gallery after cursor k.
GalleryNextCursors(k) == {NoCursor} \cup ({k + 1} \cap (1..MaxGalleryCursor))

\* fetchMemes() of a render whose state was cAfter, cFirst, cFetched: TRUE
\* when it gets past its early returns and calls exponentialBackoff.
\* throttled is `now - lastRequestTime < requestCooldown`. The api cache
\* holds nothing under the key of a url not fetched yet, and is cleared
\* before the calls that follow a reset.
galleryFetchIssues(cAfter, cFirst, cFetched, throttled) ==
  /\ ~(cAfter = NoCursor /\ cFirst)
  /\ ~throttled
  /\ cAfter \notin cFetched

\* fetchMemes() called from that render, on top of the state updates
\* (fetched) queued before it.
galleryFetchMemes(cAfter, cFirst, cFetched, cSeen, throttled, fetched, loading) ==
  IF galleryFetchIssues(cAfter, cFirst, cFetched, throttled)
    THEN /\ mgIsLoading' = TRUE
         /\ mgFetchedUrlPaths' = fetched \cup {cAfter}
         /\ mgReq' = mgReq \cup {[after |-> cAfter, seenIds |-> cSeen]}
    ELSE /\ mgIsLoading' = loading
         /\ mgFetchedUrlPaths' = fetched
         /\ mgReq' = mgReq

\* The last post scrolls into view (or the throttle timeout fires):
\* loadMoreMemes().
GalleryLoadMore(throttled) ==
  /\ Len(mgMemes) > 0
  /\ mgHasMore /\ ~mgIsLoading
  /\ IF mgAfter # NoCursor /\ ~throttled
       THEN galleryFetchMemes(mgAfter, mgFirstPageLoaded, mgFetchedUrlPaths, mgSeenIds,
                              FALSE, mgFetchedUrlPaths, mgIsLoading)
       ELSE UNCHANGED << mgIsLoading, mgFetchedUrlPaths, mgReq >>
  /\ UNCHANGED << mgMemes, mgAfter, mgHasMore, mgSeenIds, mgFirstPageLoaded,
                  mgBackoffTimers >>
  /\ UNCHANGED nonGalleryVars

\* The Refresh Feed button of the end message.
GalleryRefresh(throttled) ==
  /\ ~mgHasMore /\ Len(mgMemes) > 0
  /\ mgMemes' = <<>>
  /\ mgAfter' = NoCursor
  /\ mgHasMore' = TRUE
  /\ mgSeenIds' = {}
  /\ galleryFetchMemes(mgAfter, mgFirstPageLoaded, mgFetchedUrlPaths, mgSeenIds,
                       throttled, {}, mgIsLoading)
  /\ UNCHANGED << mgFirstPageLoaded, mgBackoffTimers >>
  /\ UNCHANGED nonGalleryVars

\* processFetchedData(data) of the render that issued req, for a body with
\* data.children; titles and urls are one per post id, as ids are.
processFetchedData(req, children, nextAfter) ==
  IF children = <<>>
    THEN /\ mgHasMore' = FALSE
         /\ UNCHANGED << mgMemes, mgAfter, mgSeenIds, mgFirstPageLoaded >>
    ELSE LET newMemes == SelectSeq(children, LAMBDA id : id \notin req.seenIds)
         IN  /\ mgSeenIds' = req.seenIds \cup SeqIds(newMemes)
             /\ mgMemes' = mgMemes \o newMemes
             /\ mgAfter' = nextAfter
             /\ mgHasMore' = hasMoreOf(nextAfter)
             /\ mgFirstPageLoaded' = IF req.after = NoCursor THEN TRUE
                                                             ELSE mgFirstPageLoaded

\* exponentialBackoff resolves with a listing: .then(data => ...).
GalleryListing(req, children, nextAfter) ==
  /\ req \in mgReq
  /\ nextAfter \in GalleryNextCursors(req.after)
  /\ processFetchedData(req, children, nextAfter)
  /\ mgIsLoading' = FALSE
  /\ mgReq' = mgReq \ {req}
  /\ UNCHANGED << mgFetchedUrlPaths, mgBackoffTimers >>
  /\ UNCHANGED nonGalleryVars

\* ... with a body without data.children: the else branch of processFetchedData.
GalleryInvalidBody(req) ==
  /\ req \in mgReq
  /\ mgHasMore' = FALSE
  /\ mgIsLoading' = FALSE
  /\ mgReq' = mgReq \ {req}
  /\ UNCHANGED << mgMemes, mgAfter, mgSeenIds, mgFetchedUrlPaths, mgFirstPageLoaded,
                  mgBackoffTimers >>
  /\ UNCHANGED nonGalleryVars

\* ... with null: if (!data) return.
GalleryNullBody(req) ==
  /\ req \in mgReq
  /\ mgReq' = mgReq \ {req}
  /\ UNCHANGED << mgMemes, mgIsLoading, mgAfter, mgHasMore, mgSeenIds,
                  mgFetchedUrlPaths, mgFirstPageLoaded, mgBackoffTimers >>
  /\ UNCHANGED nonGalleryVars

\* exponentialBackoff rejects with 'Rate limited by Reddit API': the catch
\* and its setTimeout.
GalleryRateLimited(req) ==
  /\ req \in mgReq
  /\ mgIsLoading' = FALSE
  /\ mgHasMore' = FALSE
  /\ mgBackoffTimers' = Append(mgBackoffTimers, feedNow + RATE_LIMIT_BACKOFF)
  /\ mgReq' = mgReq \ {req}
  /\ UNCHANGED << mgMemes, mgAfter, mgSeenIds, mgFetchedUrlPaths, mgFirstPageLoaded >>
  /\ UNCHANGED nonGalleryVars

\* exponentialBackoff rejects with another error: the catch, else branch.
GalleryFetchError(req) ==
  /\ req \in mgReq
  /\ mgIsLoading' = FALSE
  /\ mgHasMore' = FALSE
  /\ mgReq' = mgReq \ {req}
  /\ UNCHANGED << mgMemes, mgAfter, mgSeenIds, mgFetchedUrlPaths, mgFirstPageLoaded,
                  mgBackoffTimers >>
  /\ UNCHANGED nonGalleryVars

\* RATE_LIMIT_BACKOFF is over: setHasMore(true).
GalleryBackoffOver ==
  /\ mgBackoffTimers # <<>>
  /\ mgHasMore' = TRUE
  /\ mgBackoffTimers' = Tail(mgBackoffTimers)
  /\ UNCHANGED << mgMemes, mgIsLoading, mgAfter, mgSeenIds, mgFetchedUrlPaths,
                  mgFirstPageLoaded, mgReq >>
  /\ UNCHANGED nonGalleryVars

InitGallery == InitFrom(NoUser, SeededStore)

NextGallery ==
  \/ \E throttled \in BOOLEAN : GalleryLoadMore(throttled)
  \/ \E throttled \in BOOLEAN : GalleryRefresh(throttled)
  \/ \E req \in mgReq, children \in GalleryPages, a \in 0..MaxGalleryCursor :
       GalleryListing(req, children, a)
  \/ \E req \in mgReq : GalleryInvalidBody(req)
  \/ \E req \in mgReq : GalleryNullBody(req)
  \/ \E req \in mgReq : GalleryRateLimited(req)
  \/ \E req \in mgReq : GalleryFetchError(req)
  \/ GalleryBackoffOver

SpecGallery == InitGallery /\ [][NextGallery]_vars

\* The gallery with the browser's clock: the instants around one backoff.
CooldownInstants == {0, RATE_LIMIT_BACKOFF - 1, RATE_LIMIT_BACKOFF}

\* The backoff timer fires when its delay has passed.
GalleryBackoffElapses ==
  /\ mgBackoffTimers # <<>>
  /\ feedNow >= Head(mgBackoffTimers)
  /\ GalleryBackoffOver

NextCooldown ==
  \/ \E t \in CooldownInstants : FeedTick(t)
  \/ \E throttled \in BOOLEAN : GalleryLoadMore(throttled)
  \/ \E throttled \in BOOLEAN : GalleryRefresh(throttled)
  \/ \E req \in mgReq, children \in GalleryPages, a \in 0..MaxGalleryCursor :
       GalleryListing(req, children, a)
  \/ \E req \in mgReq : GalleryInvalidBody(req)
  \/ \E req \in mgReq : GalleryRateLimited(req)
  \/ \E req \in mgReq : GalleryFetchError(req)
  \/ GalleryBackoffElapses

SpecCooldown == InitGallery /\ [][NextCooldown]_vars

\* ------------------------------------------- the likes and seen stores
DbUsers == {"u1"}
DbPosts == {"p1", "p2"}
\* The snapshots (meme objects) a client may send of a post.
Snapshots == { [id |-> id, rev |-> r] : id \in DbPosts, r \in {1, 2} }
DbFeedKeys == {"seen_memes_subreddit_memes"}
\* The memeIds arrays of POST /seen.
SeenBatches == { <<"p1">>, <<"p1", "p2">>, <<"p2", "p2">> }

\* A bug: the filter of the likes queries leaves the user out.
likesMatchingAnyUser(u, id) == { d \in likesCol : d.memeId = id }

\* find({ userId, memeId })
likesMatching(u, id) == { d \in likesCol : d.userId = u /\ d.memeId = id }

\* find({ userId, feedKey, memeId })
seenMatching(u, key, id) ==
  { d \in seenCol : d.userId = u /\ d.feedKey = key /\ d.memeId = id }

\* createIndex(..., { unique: true }) fails on a collection that holds two
\* documents with the same key.
likesHasDuplicates ==
  \E d1, d2 \in likesCol : d1 # d2 /\ d1.userId = d2.userId /\ d1.memeId = d2.memeId

seenHasDuplicates ==
  \E d1, d2 \in seenCol :
    d1 # d2 /\ d1.userId = d2.userId /\ d1.feedKey = d2.feedKey /\ d1.memeId = d2.memeId

\* The response of the handler that served req.
respond(req, status, body) == [req |-> req, status |-> status, body |-> body]

\* initializeDb: the createIndex calls on likes; a failure is caught and
\* logged by server.js and the server keeps running.
CreateLikesIndexes ==
  /\ dbInit = "likes"
  /\ IF likesHasDuplicates
       THEN dbInit' = "failed" /\ likesUnique' = likesUnique
       ELSE dbInit' = "seen" /\ likesUnique' = TRUE
  /\ UNCHANGED << seenUnique, likesCol, seenCol, dbNextId, dbNow, dbOps, dbCalls,
                  dbResponse >>
  /\ UNCHANGED nonDbVars

\* initializeDb: the createIndex calls on seen_memes.
CreateSeenIndexes ==
  /\ dbInit = "seen"
  /\ IF seenHasDuplicates
       THEN dbInit' = "failed" /\ seenUnique' = seenUnique
       ELSE dbInit' = "done" /\ seenUnique' = TRUE
  /\ UNCHANGED << likesUnique, likesCol, seenCol, dbNextId, dbNow, dbOps, dbCalls,
                  dbResponse >>
  /\ UNCHANGED nonDbVars

\* Time passes.
Tick ==
  /\ dbNow < MaxTime
  /\ dbNow' = dbNow + 1
  /\ UNCHANGED << dbInit, likesUnique, seenUnique, likesCol, seenCol, dbNextId, dbOps,
                  dbCalls, dbResponse >>
  /\ UNCHANGED nonDbVars

\* GET /likes/:userId: find({ userId }).sort({ createdAt: -1 }), in any
\* order the sort allows among equal dates; the memeData of each.
likesSorted(u) ==
  LET docs == { d \in likesCol : d.userId = u }
      n == Cardinality(docs)
  IN  { order \in [1..n -> docs] :
          /\ \A i, j \in 1..n : i # j => order[i] # order[j]
          /\ \A i, j \in 1..n : i < j => order[i].createdAt >= order[j].createdAt }

GetLikes(u) ==
  /\ \E order \in likesSorted(u) :
       dbResponse' = respond([op |-> "listLikes", userId |-> u], 200,
                             [k \in DOMAIN order |-> order[k].memeData])
  /\ UNCHANGED << dbInit, likesUnique, seenUnique, likesCol, seenCol, dbNextId, dbNow,
                  dbOps, dbCalls >>
  /\ UNCHANGED nonDbVars

\* POST /likes with { userId, meme }: the update document is built, with
\* createdAt: new Date(), and updateOne is awaited.
PostLikes(u, meme) ==
  /\ dbCalls < MaxDbCalls
  /\ dbCalls' = dbCalls + 1
  /\ dbOps' = dbOps \cup {[op |-> "upsertLike", rid |-> dbCalls + 1, userId |-> u,
                            memeId |-> meme.id, memeData |-> meme, createdAt |-> dbNow,
                            pc |-> "find"]}
  /\ UNCHANGED << dbInit, likesUnique, seenUnique, likesCol, seenCol, dbNextId, dbNow,
                  dbResponse >>
  /\ UNCHANGED nonDbVars

\* The request that a handler awaiting the database serves.
requestOf(o) ==
  IF o.op = "upsertLike"
    THEN [op |-> o.op, userId |-> o.userId, memeId |-> o.memeId, memeData |-> o.memeData]
    ELSE [op |-> o.op, userId |-> o.userId, feedKey |-> o.feedKey, memeIds |-> o.memeIds]

\* A bug: the update keeps the snapshot and the date of the first like
\* ($setOnInsert in place of $set).
likeUpdatedKeepsFirst(d, o) == d

\* $set: { userId, memeId, memeData: meme, createdAt } on a matching document.
likeUpdated(d, o) ==
  [d EXCEPT !.memeData = o.memeData, !.createdAt = o.createdAt]

\* updateOne(filter, $set, { upsert: true }) in the database: a matching
\* document is updated; without one the upsert goes on to insert.
LikeUpdateOne(o) ==
  /\ o \in dbOps /\ o.op = "upsertLike" /\ o.pc = "find"
  /\ IF likesMatching(o.userId, o.memeId) # {}
       THEN /\ \E d \in likesMatching(o.userId, o.memeId) :
                 likesCol' = (likesCol \ {d}) \cup {likeUpdated(d, o)}
            /\ dbOps' = dbOps \ {o}
            /\ dbResponse' = respond(requestOf(o), 200, "success")
       ELSE /\ dbOps' = (dbOps \ {o}) \cup {[o EXCEPT !.pc = "insert"]}
            /\ UNCHANGED << likesCol, dbResponse >>
  /\ UNCHANGED << dbInit, likesUnique, seenUnique, seenCol, dbNextId, dbNow, dbCalls >>
  /\ UNCHANGED nonDbVars

\* The insert of the upsert. Under the unique index a document that another
\* writer has inserted meanwhile makes it a duplicate key error, which the
\* database answers by running the upsert again (retry) or returns to the
\* handler, whose catch answers 500.
LikeInsert(o, retry) ==
  /\ o \in dbOps /\ o.op = "upsertLike" /\ o.pc = "insert"
  /\ IF likesUnique /\ likesMatching(o.userId, o.memeId) # {}
       THEN /\ IF retry
                 THEN /\ dbOps' = (dbOps \ {o}) \cup {[o EXCEPT !.pc = "find"]}
                      /\ dbResponse' = dbResponse
                 ELSE /\ dbOps' = dbOps \ {o}
                      /\ dbResponse' = respond(requestOf(o), 500, "Failed to save like")
            /\ UNCHANGED << likesCol, dbNextId >>
       ELSE /\ likesCol' = likesCol \cup
                             {[id |-> dbNextId, userId |-> o.userId, memeId |-> o.memeId,
                               memeData |-> o.memeData, createdAt |-> o.createdAt]}
            /\ dbNextId' = dbNextId + 1
            /\ dbOps' = dbOps \ {o}
            /\ dbResponse' = respond(requestOf(o), 200, "success")
  /\ UNCHANGED << dbInit, likesUnique, seenUnique, seenCol, dbNow, dbCalls >>
  /\ UNCHANGED nonDbVars

\* A bug: the delete removes every like of the user.
deletedAllOfUser(u, id) == { { d \in likesCol : d.userId = u } }

\* deleteOne({ userId, memeId }): the documents it may remove, none when
\* nothing matches.
deletedOne(u, id) ==
  IF likesMatching(u, id) = {} THEN {{}} ELSE { {d} : d \in likesMatching(u, id) }

\* DELETE /likes/:userId/:memeId.
DeleteLikes(u, id) ==
  /\ \E gone \in deletedOne(u, id) : likesCol' = likesCol \ gone
  /\ dbResponse' = respond([op |-> "deleteLike", userId |-> u, memeId |-> id], 200,
                           "success")
  /\ UNCHANGED << dbInit, likesUnique, seenUnique, seenCol, dbNextId, dbNow, dbOps,
                  dbCalls >>
  /\ UNCHANGED nonDbVars

\* GET /seen/:userId/:feedKey: the memeId of each document found; the array
\* is represented by the number of times it holds each id.
seenListed(u, key) ==
  [id \in DbPosts |-> Cardinality(seenMatching(u, key, id))]

GetSeen(u, key) ==
  /\ dbResponse' = respond([op |-> "listSeenIds", userId |-> u, feedKey |-> key], 200,
                           seenListed(u, key))
  /\ UNCHANGED << dbInit, likesUnique, seenUnique, likesCol, seenCol, dbNextId, dbNow,
                  dbOps, dbCalls >>
  /\ UNCHANGED nonDbVars

\* POST /seen with { userId, feedKey, memeIds }: the operations are built,
\* each with createdAt: new Date(), and bulkWrite is awaited. next is the
\* operation the database is at, failed the write errors so far.
PostSeenBatch(u, key, memeIds) ==
  /\ dbCalls < MaxDbCalls
  /\ dbCalls' = dbCalls + 1
  /\ dbOps' = dbOps \cup {[op |-> "upsertSeenBatch", rid |-> dbCalls + 1, userId |-> u,
                            feedKey |-> key, memeIds |-> memeIds, createdAt |-> dbNow,
                            next |-> 1, failed |-> {}, pc |-> "find"]}
  /\ UNCHANGED << dbInit, likesUnique, seenUnique, likesCol, seenCol, dbNextId, dbNow,
                  dbResponse >>
  /\ UNCHANGED nonDbVars

\* A bug: bulkWrite stops at its first write error ({ ordered: true }).
seenOpDoneOrdered(o, error) ==
  LET failed == IF error THEN o.failed \cup {o.next} ELSE o.failed
      last == o.next = Len(o.memeIds) \/ error
  IN  /\ dbOps' = IF last THEN dbOps \ {o}
                          ELSE (dbOps \ {o}) \cup
                               {[o EXCEPT !.next = o.next + 1, !.failed = failed,
                                          !.pc = "find"]}
      /\ dbResponse' = IF ~last THEN dbResponse
                       ELSE IF failed = {} THEN respond(requestOf(o), 200, "success")
                       ELSE respond(requestOf(o), 500, "Failed to save seen memes")

\* bulkWrite(operations, { ordered: false }) is through with operation
\* o.next, with a write error or not: it goes on to the next operation;
\* after the last one it resolves, or rejects when an operation has failed
\* and the handler's catch answers 500.
seenOpDone(o, error) ==
  LET failed == IF error THEN o.failed \cup {o.next} ELSE o.failed
      last == o.next = Len(o.memeIds)
  IN  /\ dbOps' = IF last THEN dbOps \ {o}
                          ELSE (dbOps \ {o}) \cup
                               {[o EXCEPT !.next = o.next + 1, !.failed = failed,
                                          !.pc = "find"]}
      /\ dbResponse' = IF ~last THEN dbResponse
                       ELSE IF failed = {} THEN respond(requestOf(o), 200, "success")
                       ELSE respond(requestOf(o), 500, "Failed to save seen memes")

\* One updateOne of the batch, { $setOnInsert, upsert: true }: a matching
\* document is left as it is; without one the upsert goes on to insert.
SeenUpdateOne(o) ==
  /\ o \in dbOps /\ o.op = "upsertSeenBatch" /\ o.pc = "find"
  /\ IF seenMatching(o.userId, o.feedKey, o.memeIds[o.next]) # {}
       THEN seenOpDone(o, FALSE)
       ELSE /\ dbOps' = (dbOps \ {o}) \cup {[o EXCEPT !.pc = "insert"]}
            /\ dbResponse' = dbResponse
  /\ UNCHANGED << dbInit, likesUnique, seenUnique, likesCol, seenCol, dbNextId, dbNow,
                  dbCalls >>
  /\ UNCHANGED nonDbVars

\* The insert of that upsert; a duplicate key error is answered by running
\* the upsert again (retry) or is a write error of this operation.
SeenInsert(o, retry) ==
  /\ o \in dbOps /\ o.op = "upsertSeenBatch" /\ o.pc = "insert"
  /\ IF seenUnique /\ seenMatching(o.userId, o.feedKey, o.memeIds[o.next]) # {}
       THEN /\ IF retry
                 THEN /\ dbOps' = (dbOps \ {o}) \cup {[o EXCEPT !.pc = "find"]}
                      /\ dbResponse' = dbResponse
                 ELSE seenOpDone(o, TRUE)
            /\ UNCHANGED << seenCol, dbNextId >>
       ELSE /\ seenCol' = seenCol \cup
                            {[id |-> dbNextId, userId |-> o.userId, feedKey |-> o.feedKey,
                              memeId |-> o.memeIds[o.next], createdAt |-> o.createdAt]}
            /\ dbNextId' = dbNextId + 1
            /\ seenOpDone(o, FALSE)
  /\ UNCHANGED << dbInit, likesUnique, seenUnique, likesCol, dbNow, dbCalls >>
  /\ UNCHANGED nonDbVars

\* The server starts on a new database, or on an initialized one.
InitStore == \E empty \in BOOLEAN : InitWith(NoUser, SeededStore, empty)

\* The likes endpoints and the start of the server.
NextLikes ==
  \/ CreateLikesIndexes
  \/ CreateSeenIndexes
  \/ Tick
  \/ \E u \in DbUsers : GetLikes(u)
  \/ \E u \in DbUsers, meme \in Snapshots : PostLikes(u, meme)
  \/ \E o \in dbOps : LikeUpdateOne(o)
  \/ \E o \in dbOps, retry \in BOOLEAN : LikeInsert(o, retry)
  \/ \E u \in DbUsers, id \in DbPosts : DeleteLikes(u, id)

SpecLikes == InitStore /\ [][NextLikes]_vars

\* The seen endpoints and the start of the server.
NextSeen ==
  \/ CreateLikesIndexes
  \/ CreateSeenIndexes
  \/ Tick
  \/ \E u \in DbUsers, key \in DbFeedKeys : GetSeen(u, key)
  \/ \E u \in DbUsers, key \in DbFeedKeys, memeIds \in SeenBatches :
       PostSeenBatch(u, key, memeIds)
  \/ \E o \in dbOps : SeenUpdateOne(o)
  \/ \E o \in dbOps, retry \in BOOLEAN : SeenInsert(o, retry)

SpecSeen == InitStore /\ [][NextSeen]_vars

\* The stores serving two users, who like and see the same post: p2, which
\* u1 has liked and seen before.
StoreUsers == {"u1", "u2"}
StoreSnapshots == { [id |-> "p2", rev |-> 2] }
StoreBatches == { <<"p1", "p2">> }

\* The step is a like or seen operation issued for user v, or a step of the
\* database on behalf of one.
operationFor(v) ==
  \/ GetLikes(v)
  \/ \E meme \in StoreSnapshots : PostLikes(v, meme)
  \/ \E meme \in StoreSnapshots : DeleteLikes(v, meme.id)
  \/ \E key \in DbFeedKeys : GetSeen(v, key)
  \/ \E key \in DbFeedKeys, memeIds \in StoreBatches : PostSeenBatch(v, key, memeIds)
  \/ \E o \in dbOps :
       /\ o.userId = v
       /\ \/ LikeUpdateOne(o)
          \/ \E retry \in BOOLEAN : LikeInsert(o, retry)
          \/ SeenUpdateOne(o)
          \/ \E retry \in BOOLEAN : SeenInsert(o, retry)

NextStores == \E v \in StoreUsers : operationFor(v)

\* The server runs on an initialized database.
SpecStores == InitFrom(NoUser, SeededStore) /\ [][NextStores]_vars

\* ------------------------------------------------- the LikesProvider
\* The users that sign in, in turn, in this browser.
LikeUsers == {"u1", "u2"}
LikeUserStates == LikeUsers \cup {NoUser}

\* addLike: the likeEntry built from a post.
likeEntry(id) == [id |-> id, rev |-> 1]

\* isLiked(memeId): likes.some((like) => like.id === memeId).
isLiked(id) == \E i \in DOMAIN lcLikes : lcLikes[i].id = id

\* A bug: addLike waits for the backend and leaves the list as it is.
likesWithNoOptimism(prevLikes, entry) == prevLikes

\* addLike: setLikes((prevLikes) => ...some(...) ? prevLikes : [likeEntry, ...prevLikes]).
likesWith(prevLikes, entry) ==
  IF \E i \in DOMAIN prevLikes : prevLikes[i].id = entry.id
    THEN prevLikes
    ELSE <<entry>> \o prevLikes

\* removeLike: prevLikes.filter((like) => like.id !== memeId).
likesWithout(prevLikes, id) == SelectSeq(prevLikes, LAMBDA like : like.id # id)

\* The save effect of a render with these values: what 'likes_anonymous'
\* holds after it.
saveEffect(likes, loaded, loading, u, stored) ==
  IF ~loaded \/ loading THEN stored
  ELSE IF u = NoUser THEN <<likes>>
  ELSE stored

\* Clerk reports the auth state: first that it is loaded (with a user or
\* without), later a sign-in or a sign-out. The render with the new isLoaded / isSignedIn / user runs the
\* load effect, whose loadLikes() runs up to its first await, and then the
\* save effect, which still sees the likes and isLoading of that render.
lcAuthChanges(u) ==
  /\ ~lcRender
  /\ \/ ~lcIsLoaded
     \/ lcUser = NoUser /\ u # NoUser
     \/ lcUser # NoUser /\ u = NoUser
  /\ lcIsLoaded' = TRUE
  /\ lcUser' = u
  /\ IF u # NoUser
       THEN /\ lcCalls < MaxLikeCalls
            /\ lcCalls' = lcCalls + 1
            /\ lcLoads' = lcLoads \cup {[userId |-> u, rid |-> lcCalls + 1]}
            /\ lcIsLoading' = TRUE
            /\ lcLikes' = lcLikes
            /\ lcRender' = FALSE
       ELSE /\ lcLikes' = IF lcAnon # <<>> THEN lcAnon[1] ELSE <<>>
            /\ lcIsLoading' = FALSE
            /\ lcRender' = TRUE
            /\ UNCHANGED << lcCalls, lcLoads >>
  /\ lcAnon' = saveEffect(lcLikes, TRUE, lcIsLoading, u, lcAnon)
  /\ UNCHANGED << lcWrites, lcAnonMarks >>
  /\ UNCHANGED << likesCol, dbNextId >>
  /\ UNCHANGED nonLikesVars

\* The render that the state set by an effect causes, and its save effect.
lcCommit ==
  /\ lcRender
  /\ lcRender' = FALSE
  /\ lcAnon' = saveEffect(lcLikes, lcIsLoaded, lcIsLoading, lcUser, lcAnon)
  /\ UNCHANGED << lcIsLoaded, lcUser, lcLikes, lcIsLoading, lcLoads, lcWrites, lcCalls,
                  lcAnonMarks >>
  /\ UNCHANGED << likesCol, dbNextId >>
  /\ UNCHANGED nonLikesVars

\* GET /api/likes/:userId settles and loadLikes goes on after its await:
\* with the list of the store ("ok"), with a response that is not ok
\* ("error"), or in its catch ("throw"); the render that follows runs the
\* save effect.
lcLoadSettles(req, outcome) ==
  /\ ~lcRender
  /\ req \in lcLoads
  /\ lcLoads' = lcLoads \ {req}
  /\ \/ /\ outcome = "ok"
        /\ \E order \in likesSorted(req.userId) :
             lcLikes' = [k \in DOMAIN order |-> order[k].memeData]
     \/ /\ outcome = "error"
        /\ lcLikes' = <<>>
     \/ /\ outcome = "throw"
        /\ lcLikes' = lcLikes
  /\ lcIsLoading' = FALSE
  /\ lcAnon' = saveEffect(lcLikes', lcIsLoaded, FALSE, lcUser, lcAnon)
  /\ UNCHANGED << lcIsLoaded, lcUser, lcWrites, lcRender, lcCalls, lcAnonMarks >>
  /\ UNCHANGED << likesCol, dbNextId >>
  /\ UNCHANGED nonLikesVars

\* toggleLike(meme): removeLike or addLike, each with its optimistic
\* setLikes and, for a signed-in user, its request; then the render and its
\* save effect.
lcToggleLike(id) ==
  /\ ~lcRender
  /\ lcUser # NoUser => lcCalls < MaxLikeCalls
  /\ lcLikes' = IF isLiked(id) THEN likesWithout(lcLikes, id)
                               ELSE likesWith(lcLikes, likeEntry(id))
  /\ IF lcUser # NoUser
       THEN /\ lcCalls' = lcCalls + 1
            /\ lcWrites' = lcWrites \cup
                             {[op |-> IF isLiked(id) THEN "DELETE" ELSE "POST",
                               userId |-> lcUser, meme |-> likeEntry(id),
                               rid |-> lcCalls + 1]}
       ELSE UNCHANGED << lcCalls, lcWrites >>
  /\ lcAnonMarks' = IF lcUser = NoUser /\ ~isLiked(id) THEN lcAnonMarks \cup {id}
                                                       ELSE lcAnonMarks
  /\ lcAnon' = saveEffect(lcLikes', lcIsLoaded, lcIsLoading, lcUser, lcAnon)
  /\ UNCHANGED << lcIsLoaded, lcUser, lcIsLoading, lcLoads, lcRender >>
  /\ UNCHANGED << likesCol, dbNextId >>
  /\ UNCHANGED nonLikesVars

\* POST /likes served without a concurrent writer: the collections that
\* updateOne(filter, $set, { upsert: true }) may leave.
likeUpserted(u, meme) ==
  LET o == [userId |-> u, memeId |-> meme.id, memeData |-> meme, createdAt |-> dbNow]
  IN  IF likesMatching(u, meme.id) # {}
        THEN { (likesCol \ {d}) \cup {likeUpdated(d, o)} : d \in likesMatching(u, meme.id) }
        ELSE { likesCol \cup {[id |-> dbNextId, userId |-> u, memeId |-> meme.id,
                               memeData |-> meme, createdAt |-> dbNow]} }

\* The request of addLike or removeLike settles: served by the likes
\* endpoint ("ok"), answered with an error status, or failed in the network
\* ("throw"). The provider logs the outcome and nothing else.
lcWriteSettles(req, outcome) ==
  /\ ~lcRender
  /\ req \in lcWrites
  /\ lcWrites' = lcWrites \ {req}
  /\ IF outcome = "ok"
       THEN IF req.op = "POST"
              THEN /\ likesCol' \in likeUpserted(req.userId, req.meme)
                   /\ dbNextId' = IF likesMatching(req.userId, req.meme.id) # {}
                                    THEN dbNextId ELSE dbNextId + 1
              ELSE /\ \E gone \in deletedOne(req.userId, req.meme.id) :
                        likesCol' = likesCol \ gone
                   /\ dbNextId' = dbNextId
       ELSE UNCHANGED << likesCol, dbNextId >>
  /\ UNCHANGED << lcIsLoaded, lcUser, lcLikes, lcIsLoading, lcAnon, lcLoads, lcRender,
                  lcCalls, lcAnonMarks >>
  /\ UNCHANGED nonLikesVars

Outcomes == {"ok", "error", "throw"}

InitLikesProvider == InitFrom(NoUser, SeededStore)

NextLikesProvider ==
  \/ \E u \in LikeUserStates : lcAuthChanges(u)
  \/ lcCommit
  \/ \E req \in lcLoads, outcome \in Outcomes : lcLoadSettles(req, outcome)
  \/ \E id \in DbPosts : lcToggleLike(id)
  \/ \E req \in lcWrites, outcome \in Outcomes : lcWriteSettles(req, outcome)

SpecLikesProvider == InitLikesProvider /\ [][NextLikesProvider]_vars

\* The LikesProvider of u1 in front of the likes endpoints as the server
\* runs them: u1 signs in and toggles likes in this browser, while POST
\* /likes requests of u1 for p1 from another tab are served, on a database
\* whose indexes the starting server may still be creating.
NextLikesReload ==
  \/ CreateLikesIndexes
  \/ CreateSeenIndexes
  \/ PostLikes("u1", likeEntry("p1"))
  \/ \E o \in dbOps : LikeUpdateOne(o)
  \/ \E o \in dbOps, retry \in BOOLEAN : LikeInsert(o, retry)
  \/ lcAuthChanges("u1")
  \/ \E req \in lcLoads : lcLoadSettles(req, "ok")
  \/ \E id \in DbPosts : lcToggleLike(id)
  \/ \E req \in lcWrites : lcWriteSettles(req, "ok")

SpecLikesReload == InitStore /\ [][NextLikesReload]_vars

\* One user, signed in when Clerk has loaded and for good, and no request
\* that fails.
NextLikesSync ==
  \/ lcAuthChanges("u1")
  \/ \E req \in lcLoads : lcLoadSettles(req, "ok")
  \/ \E id \in DbPosts : lcToggleLike(id)
  \/ \E req \in lcWrites : lcWriteSettles(req, "ok")

SpecLikesSync == InitLikesProvider /\ [][NextLikesSync]_vars

\* ---------------------------------------------------- the listing proxy
\* The instants at which the server is observed: around the end of the rate
\* limit window, and around the end of the cache duration.
WindowInstants == {0, 59999, 60000}
CacheInstants == {0, 299999, 300000}
Instants == WindowInstants \cup CacheInstants

\* The requests sent: the first page of the subreddit cached first, one of
\* r/memes, and two more pages of r/memes, one with a "-" in `limit`, the
\* other with a "-" in `after`.
Queries ==
  { EarlierQuery(1),
    Query(<<"memes">>, <<"hot">>, <<"25">>, <<>>),
    Query(<<"memes">>, <<"hot">>, <<"25">>, <<"a", "-", "b">>),
    Query(<<"memes">>, <<"hot">>, <<"25", "-", "a">>, <<"b">>) }

\* Time passes, up to instant t.
ProxyTick(t) ==
  /\ t > rpNow
  /\ rpNow' = t
  /\ UNCHANGED << rateLimiter, cache, rpPending, rpUpstream, rpResponse, rpCalls,
                  rpAdmitted >>
  /\ UNCHANGED nonProxyVars

\* isRateLimited: clientRequests.filter(timestamp => now - timestamp < RATE_LIMIT_WINDOW)
recentRequests(clientRequests, now) ==
  SelectSeq(clientRequests, LAMBDA timestamp : now - timestamp < RATE_LIMIT_WINDOW)

\* A bug: the request that reaches the ceiling is let through too.
limitedAboveCeiling(recent) == Len(recent) > MAX_REQUESTS_PER_WINDOW

\* isRateLimited: recentRequests.length >= MAX_REQUESTS_PER_WINDOW
limited(recent) == Len(recent) >= MAX_REQUESTS_PER_WINDOW

\* cache.get(cacheKey): the index of the entry, 0 for undefined.
cacheIndex(key) ==
  IF \E i \in DOMAIN cache : cache[i].key = key
    THEN CHOOSE i \in DOMAIN cache : cache[i].key = key
    ELSE 0

\* Map.set: the value of a key that is present is replaced where it stands;
\* a new key goes last.
mapSet(entries, entry) ==
  IF \E i \in DOMAIN entries : entries[i].key = entry.key
    THEN [i \in DOMAIN entries |-> IF entries[i].key = entry.key THEN entry ELSE entries[i]]
    ELSE Append(entries, entry)

\* if (cache.size > 100) cache.delete(cache.keys().next().value)
cleanedUp(entries) ==
  IF Len(entries) > CacheCapacity THEN Tail(entries) ELSE entries

\* The response sent to request rid.
answer(rid, status, body, hint) ==
  [rid |-> rid, status |-> status, body |-> body, retryAfter |-> hint]

NoListing == Fetched(EarlierQuery(0), 0)

\* A bug: a denied request is answered 429 and then served all the same
\* (the `return` is missing).
deniedAndServed(rid, client, q) ==
  /\ rpResponse' = answer(rid, 429, NoListing, retryAfter)
  /\ rpPending' = rpPending \cup
       {[rid |-> rid, client |-> client, query |-> q,
         key |-> getCacheKey(q.subreddit, q.sort, q.limit, q.after)]}
  /\ rpUpstream' = rpUpstream \cup {rid}
  /\ UNCHANGED << rateLimiter, cache, rpAdmitted >>

\* The handler with isRateLimited(clientId) true: return
\* res.status(429).json({ error, retryAfter: 60 }).
denied(rid, client, q) ==
  /\ rpResponse' = answer(rid, 429, NoListing, retryAfter)
  /\ UNCHANGED << rateLimiter, cache, rpPending, rpUpstream, rpAdmitted >>

\* A bug: the timestamp is pushed only when the upstream source is called,
\* a request served from the cache is not counted.
admittedUncountedWhenCached(rid, client, q) ==
  LET key == getCacheKey(q.subreddit, q.sort, q.limit, q.after)
      i == cacheIndex(key)
      hit == i # 0 /\ rpNow - cache[i].timestamp < CACHE_DURATION
  IN  /\ rateLimiter' = IF hit THEN rateLimiter
                        ELSE [rateLimiter EXCEPT
                                ![client] = Append(recentRequests(rateLimiter[client], rpNow),
                                                   rpNow)]
      /\ rpAdmitted' = [rpAdmitted EXCEPT ![client] = Append(rpAdmitted[client], rpNow)]
      /\ IF hit
           THEN /\ rpResponse' = answer(rid, 200, cache[i].data, 0)
                /\ UNCHANGED << rpPending, rpUpstream >>
           ELSE /\ rpPending' = rpPending \cup
                     {[rid |-> rid, client |-> client, query |-> q, key |-> key]}
                /\ rpUpstream' = rpUpstream \cup {rid}
                /\ rpResponse' = rpResponse
      /\ cache' = cache

\* The handler with isRateLimited(clientId) false, which has pushed `now`:
\* a cached value younger than CACHE_DURATION is sent, else the upstream
\* source is called and awaited.
admitted(rid, client, q) ==
  LET key == getCacheKey(q.subreddit, q.sort, q.limit, q.after)
      i == cacheIndex(key)
  IN  /\ rateLimiter' = [rateLimiter EXCEPT
                           ![client] = Append(recentRequests(rateLimiter[client], rpNow),
                                              rpNow)]
      /\ rpAdmitted' = [rpAdmitted EXCEPT ![client] = Append(rpAdmitted[client], rpNow)]
      /\ IF i # 0 /\ rpNow - cache[i].timestamp < CACHE_DURATION
           THEN /\ rpResponse' = answer(rid, 200, cache[i].data, 0)
                /\ UNCHANGED << rpPending, rpUpstream >>
           ELSE /\ rpPending' = rpPending \cup
                     {[rid |-> rid, client |-> client, query |-> q, key |-> key]}
                /\ rpUpstream' = rpUpstream \cup {rid}
                /\ rpResponse' = rpResponse
      /\ cache' = cache

\* GET /reddit/:subreddit up to its await (or its return).
ListingRequest(client, q) ==
  /\ rpCalls < MaxListingCalls
  /\ rpCalls' = rpCalls + 1
  /\ IF limited(recentRequests(rateLimiter[client], rpNow))
       THEN denied(rpCalls + 1, client, q)
       ELSE admitted(rpCalls + 1, client, q)
  /\ rpNow' = rpNow
  /\ UNCHANGED nonProxyVars

\* A bug: the catch stores the error answer under the key of the request.
UpstreamSettlesCachingFailure(p, ok) ==
  /\ p \in rpPending
  /\ rpPending' = rpPending \ {p}
  /\ cache' = cleanedUp(mapSet(cache, [key |-> p.key,
                                       data |-> IF ok THEN Fetched(p.query, rpNow)
                                                ELSE NoListing,
                                       timestamp |-> rpNow]))
  /\ rpResponse' = IF ok THEN answer(p.rid, 200, Fetched(p.query, rpNow), 0)
                   ELSE answer(p.rid, 500, NoListing, 0)
  /\ UNCHANGED << rpNow, rateLimiter, rpUpstream, rpCalls, rpAdmitted >>
  /\ UNCHANGED nonProxyVars

\* The upstream fetch settles: with a listing (ok), which is cached, the
\* cache cleaned up and the listing sent; or with a status that is not ok or
\* a network error, which the catch answers with 500.
UpstreamSettles(p, ok) ==
  /\ p \in rpPending
  /\ rpPending' = rpPending \ {p}
  /\ IF ok
       THEN /\ cache' = cleanedUp(mapSet(cache, [key |-> p.key,
                                                 data |-> Fetched(p.query, rpNow),
                                                 timestamp |-> rpNow]))
            /\ rpResponse' = answer(p.rid, 200, Fetched(p.query, rpNow), 0)
       ELSE /\ cache' = cache
            /\ rpResponse' = answer(p.rid, 500, NoListing, 0)
  /\ UNCHANGED << rpNow, rateLimiter, rpUpstream, rpCalls, rpAdmitted >>
  /\ UNCHANGED nonProxyVars

InitProxy == \E warm \in BOOLEAN : InitOf(NoUser, SeededStore, FALSE, warm)

\* The rate limiter at work: two clients ask for the first page of r/memes.
NextLimiter ==
  \/ \E t \in WindowInstants : ProxyTick(t)
  \/ \E client \in Clients :
       ListingRequest(client, Query(<<"memes">>, <<"hot">>, <<"25">>, <<>>))
  \/ \E p \in rpPending, ok \in BOOLEAN : UpstreamSettles(p, ok)

SpecLimiter == InitProxy /\ [][NextLimiter]_vars

\* The cache at work: one client, far from its ceiling, asks for the pages.
NextCache ==
  \/ \E t \in CacheInstants : ProxyTick(t)
  \/ \E q \in Queries : ListingRequest("c2", q)
  \/ \E p \in rpPending, ok \in BOOLEAN : UpstreamSettles(p, ok)

SpecCache == InitProxy /\ [][NextCache]_vars

\* --------------------------------------------- the page filter, by cases
\* Pages that between them hold every kind of post, for the filter.
FilterPages ==
  { <<"p1", "p2", "p3">>,
    <<"p4", "p5", "p6">>,
    <<"p6", "p2", "p1">>,
    <<"p5", "p2">>,
    <<>> }

\* The seen sets an anonymous visitor may have in localStorage at mount.
FilterSeenSets ==
  { {}, {"p1"}, {"p6"}, {"p3", "p4"}, {"p2", "p5"}, {"p1", "p3", "p4", "p6"} }

InitFilter ==
  \E seen \in FilterSeenSets :
    InitFrom(NoUser, [EmptyStore EXCEPT ![<<"seen_memes_subreddit", "memes">>] = seen])

NextFilter ==
  \/ \E children \in FilterPages, a \in 0..MaxCursor : FetchResponse(children, a)
  \/ \E d \in {1, -1} : Advance(d)
  \/ Retry
  \/ TimerFires

SpecFilter == InitFilter /\ [][NextFilter]_vars

\* ------------------------------------------------------------ properties
CurrentKey == getSeenStorageKey(props)
CurrentSeenLoad == [userId |-> user, feedKey |-> CurrentKey]

\* C1: within one session no post id occurs twice in the loaded list.
C1_NoDuplicatePost ==
  \A i, j \in DOMAIN memes : i # j => memes[i] # memes[j]

\* C2: the seen-id load of the current (user, feedKey) has completed (or
\* failed) before the first page of a started feed is put into the loaded
\* list, and that page exposes no post of the persisted seen set.
C2_SeenLoadedBeforeFirstPage ==
  [][ (mounted /\ mounted' /\ memes = <<>> /\ memes' # <<>> /\ user # NoUser)
        => /\ CurrentSeenLoad \notin seenLoads
           /\ \A i \in DOMAIN memes' : memes'[i] \notin seenStore[user][CurrentKey] ]_vars

\* C3: a page response for a request issued for another target than the
\* current one appends nothing and leaves the cursor and hasMore alone.
C3_StaleResponseDiscarded ==
  [][ (mounted /\ mounted' /\ props' = props /\ fetchReq' # fetchReq
         /\ \E req \in fetchReq : req.props # props)
        => (memes' = memes /\ after' = after /\ hasMore' = hasMore) ]_vars

\* Page fetches keep being triggered: again and again a request is in flight,
\* unless the feed is exhausted or gone.
FetchesRecur == []<>(~mounted \/ ~hasMore \/ fetchReq # {})

\* C4: the cursor chain being finite (NextCursors) and page fetches
\* succeeding (SpecLive), a feed whose page fetches keep being triggered is
\* exhausted at last (or unmounted), also when pages contribute no post.
C4_EventuallyExhausted ==
  FetchesRecur => [](mounted => <>(~mounted \/ ~hasMore))

\* A page with a cursor contributed nothing and the fetch of the next page
\* of the same feed is in flight.
C4_Witness ==
  /\ mounted /\ hasMore /\ memes = <<>>
  /\ \E req \in fetchReq : req.afterToken # NoCursor /\ req.props = props

\* C5: a page response that carries a cursor leaves the feed not exhausted,
\* whatever survives the filters, and hasMore turns false only on a response
\* without cursor.
C5_ExhaustedOnlyWithoutCursor ==
  [][ /\ (\E children \in Pages, a \in 1..MaxCursor : FetchResponse(children, a)) => hasMore'
      /\ (hasMore /\ ~hasMore') => \E children \in Pages : FetchResponse(children, NoCursor)
    ]_vars

\* A response with a cursor came, nothing of it survived the filters, and
\* the feed is not exhausted.
C5_Witness ==
  mounted /\ memes = <<>> /\ after # NoCursor /\ hasMore

\* The page state of the session is left alone and no request is issued.
PageStateUnchanged ==
  fetchReq' = fetchReq /\ memes' = memes /\ after' = after /\ hasMore' = hasMore

\* C6 as stated: once the feed is exhausted, no step of the session issues
\* a page request or changes the loaded list, the cursor or hasMore.
C6_ExhaustedIsTerminal ==
  [][ (mounted /\ mounted' /\ props' = props /\ ~hasMore /\ fetchReq = {})
        => PageStateUnchanged ]_vars

\* C6 amended: once the feed is exhausted, every step of the session but the
\* Retry button of the empty state issues no page request and leaves the
\* loaded list, the cursor and hasMore unchanged.
C6_ExhaustedOnlyRetryFetches ==
  [][ (mounted /\ mounted' /\ props' = props /\ ~hasMore /\ fetchReq = {} /\ ~Retry)
        => PageStateUnchanged ]_vars

\* The feed is exhausted, the active item is the last of several (inside
\* the read-ahead window) and no request is in flight.
C6_Witness ==
  mounted /\ ~hasMore /\ currentIndex > 0 /\ currentIndex = Len(memes) - 1 /\ fetchReq = {}

\* The displayable kinds of post.
DisplayableKinds == {"image", "video", "gallery"}

\* The posts of a page that are of a displayable kind and not seen, in
\* page order.
DisplayableUnseen(children, seenSet) ==
  SelectSeq(children, LAMBDA id : PostData(id).mediaKind \in DisplayableKinds
                                    /\ id \notin seenSet)

\* C7: a page response appends to the loaded list exactly the posts of the
\* response, in response order, that are an image, a video or a gallery and
\* whose id is not in the seen-id set; text and link posts are not appended.
C7_AppendsDisplayableUnseen ==
  [][ \A children \in FilterPages, a \in 0..MaxCursor :
        FetchResponse(children, a)
          => memes' = memes \o DisplayableUnseen(children, seenIdsRef) ]_vars

\* Posts were appended to a list that had some, by a later page, while a
\* gallery and an image known by its url alone are in the list and others
\* of the pages were held back as seen.
C7_Witness ==
  /\ mounted /\ after = NoCursor /\ ~hasMore /\ Len(memes) >= 3
  /\ \E i, j \in DOMAIN memes : memes[i] = "p4" /\ memes[j] = "p6"
  /\ seenIdsRef \ SeqIds(memes) # {}

\* C8: marking seen is idempotent per post id: whenever an id is queued for
\* sending, it is an id that was not marked before for this user and feed,
\* whatever made its post active again.
C8_MarkedOnce ==
  [][ Len(pendingSeenRef') > Len(pendingSeenRef) => markLog' # markLog ]_vars

\* C9, the first half: no record of a signed-in user is sent in two
\* write-batch requests or twice in one.
C9_NoneSentTwice == resentLog = {}

\* C9, the second half: no mark of a signed-in user is lost, it is sent or
\* still pending.
C9_NoneLost ==
  \A m \in markLog :
    m.userId # NoUser => (m \in sentLog \/ m.memeId \in SeqIds(pendingSeenRef))

\* C9: every id newly marked by a signed-in user is in exactly one
\* write-batch request.
C9_SentExactlyOnce == C9_NoneSentTwice /\ C9_NoneLost

\* C10: every record sent to the Seen API carries a signed-in user and an
\* id that was marked while that user was signed in.
C10_SentOnlyOwnMarks ==
  \A rec \in sentLog :
    /\ rec.userId # NoUser
    /\ \E m \in markLog : m.userId = rec.userId /\ m.memeId = rec.memeId

\* The last index of a list of len posts, 0 for the empty list.
LastIndex(len) == IF len > 0 THEN len - 1 ELSE 0

C12_AtMostThreeAttempts == boCalls <= 3

\* C12 amended: fn is attempted at most maxRetries + 1 = 4 times, the
\* first attempt and up to 3 retries, each retry after a delay of
\* baseDelay * 2^i plus a jitter under 1 s; when the last attempt fails its
\* error is thrown with no further delay; a success returns at once, with
\* no attempt after it.
C12_AtMostFourAttempts ==
  /\ boCalls <= maxRetries + 1
  /\ \A k \in DOMAIN boDelays :
       /\ boDelays[k] >= baseDelay * (2 ^ (k - 1))
       /\ boDelays[k] < baseDelay * (2 ^ (k - 1)) + 1000
  /\ boPc = "thrown"
       => /\ boCalls = maxRetries + 1
          /\ Len(boErrors) = boCalls
          /\ Len(boDelays) = maxRetries
          /\ boOutcome = boErrors[Len(boErrors)]
  /\ boPc = "returned"
       => /\ boOutcome \in Bodies
          /\ boCalls = Len(boErrors) + 1
          /\ Len(boDelays) = Len(boErrors)

\* The fourth attempt failed with another error than the third and that
\* error was thrown.
C12_Witness ==
  /\ boPc = "thrown" /\ boCalls = 4
  /\ boErrors[3] # boErrors[4] /\ boOutcome = boErrors[4]

\* What the feed's caller and render can observe of the pipeline: Ready is
\* "not loading, more to come", Exhausted is "not loading, no more".
PipelineReady == mounted /\ ~isLoading /\ hasMore
PipelineExhausted == mounted /\ ~isLoading /\ ~hasMore

\* C13: when a page fetch has failed after its retries, the pipeline is in
\* a state that is neither Ready nor Exhausted.
C13_FailureIsObservable ==
  [][ (FetchFails /\ mounted') => ~(PipelineReady' \/ PipelineExhausted') ]_vars

\* The call of exponentialBackoff that fetchMemes awaited has thrown, or has
\* returned a body of unexpected shape, and fetchMemes is over.
FailedFetchHandled ==
  /\ boPc = "thrown" \/ (boPc = "returned" /\ boOutcome = "malformed")
  /\ boPc' = "idle"

\* C14: the step in which fetchMemes handles a failed page fetch (retries
\* exhausted, or a body without data.children) changes neither the loaded
\* list, nor the active index, nor the cursor.
C14_FailureKeepsLoaded ==
  [][ FailedFetchHandled
        => (memes' = memes /\ currentIndex' = currentIndex /\ after' = after) ]_vars

\* The fetch of a second page has failed after four attempts, while the
\* user is past the first post of a list that came with a cursor.
C14_Witness ==
  /\ mounted /\ boPc = "idle" /\ boOutcome = "HTTP 500" /\ boCalls = maxRetries + 1
  /\ Len(memes) >= 2 /\ currentIndex >= 1 /\ after # NoCursor

\* As C14_Witness, for a body of unexpected shape.
C14_WitnessMalformed ==
  /\ mounted /\ boPc = "idle" /\ boOutcome = "malformed"
  /\ Len(memes) >= 2 /\ currentIndex >= 1 /\ after # NoCursor

\* What the gallery's render and its callbacks read of the fetch pipeline.
galleryView ==
  [memes |-> mgMemes, isLoading |-> mgIsLoading, hasMore |-> mgHasMore, after |-> mgAfter]

\* The views the gallery may be left with, from the present state, by a
\* listing without a cursor that answers req.
ExhaustedViews(req) ==
  { [memes |-> IF children = <<>>
                 THEN mgMemes
                 ELSE mgMemes \o SelectSeq(children, LAMBDA id : id \notin req.seenIds),
     isLoading |-> FALSE,
     hasMore |-> FALSE,
     after |-> IF children = <<>> THEN mgAfter ELSE NoCursor] : children \in GalleryPages }

\* The view the gallery is left with, from the present state, by a 429.
RateLimitedView ==
  [memes |-> mgMemes, isLoading |-> FALSE, hasMore |-> FALSE, after |-> mgAfter]

\* C15: the state the gallery shows after an upstream 429 is none of those it
\* may show after a response without a cursor, and the state it shows after
\* any other fetch error is neither of the two.
C15_CooldownDistinct ==
  [][ \A req \in mgReq :
        /\ GalleryRateLimited(req) => galleryView' \notin ExhaustedViews(req)
        /\ GalleryFetchError(req)
             => /\ galleryView' \notin ExhaustedViews(req)
                /\ galleryView' # RateLimitedView ]_vars

\* C16: whatever upsertLike and deleteLike calls have been made, by
\* concurrent callers too, the likes collection holds at most one record per
\* (userId, postId), and a completed upsertLike leaves exactly one record of
\* its pair, with the snapshot of that call unless a later call has been
\* applied since.
C16_OneLikePerPair ==
  /\ \A d1, d2 \in likesCol : (d1.userId = d2.userId /\ d1.memeId = d2.memeId) => d1 = d2
  /\ (dbResponse.req.op = "upsertLike" /\ dbResponse.status = 200)
       => Cardinality(likesMatching(dbResponse.req.userId, dbResponse.req.memeId)) = 1

\* C17: however often a post id is marked seen for a user and feedKey (twice
\* in a batch, in two batches, by concurrent callers), seen_memes holds
\* exactly one record of it once it has been written, and no record is
\* changed or removed after it was created (its createdAt is kept).
C17_SeenOnce ==
  /\ [](\A d1, d2 \in seenCol :
          (d1.userId = d2.userId /\ d1.feedKey = d2.feedKey /\ d1.memeId = d2.memeId)
            => d1 = d2)
  /\ [][\A d \in seenCol : d \in seenCol']_vars

\* The operations of batch o that ended in a write error, when the step
\* being taken is the one that completes the batch: those before the last,
\* and the last when its insert was refused.
failedOperations(o) ==
  o.failed \cup (IF o.pc = "insert" /\ seenCol' = seenCol THEN {o.next} ELSE {})

\* The step completes the bulkWrite of o: the handler answers and is gone.
batchCompleted(o) ==
  /\ o.op = "upsertSeenBatch"
  /\ o \in dbOps
  /\ dbOps' = dbOps \ {o}

\* C18: when upsertSeenBatch completes, every id of the batch whose own
\* upsert did not fail has a record, whichever other ids of the batch failed
\* and wherever they stand in the batch.
C18_BatchIndependent ==
  [][ \A o \in dbOps :
        batchCompleted(o)
          => \A k \in (1..Len(o.memeIds)) \ failedOperations(o) :
               seenMatching(o.userId, o.feedKey, o.memeIds[k])' # {} ]_vars

\* The batch [p1, p2] was answered 500 because the upsert of p1 failed, and
\* the record of p2 is there, created by that batch.
C18_Witness ==
  /\ dbResponse.req.op = "upsertSeenBatch" /\ dbResponse.req.memeIds = <<"p1", "p2">>
  /\ dbResponse.status = 500
  /\ \E d \in seenCol : d.memeId = "p2" /\ d.id > 0
  /\ \A o \in dbOps : o.memeIds = <<"p1">>

\* body lists one snapshot for each like record of u and no other, the
\* snapshot of a record with a later createdAt before that of one with an
\* earlier createdAt.
ListedNewestFirst(u, body) ==
  LET docs == { d \in likesCol : d.userId = u }
  IN  /\ Len(body) = Cardinality(docs)
      /\ \E f \in [1..Len(body) -> docs] :
           /\ \A d \in docs : \E k \in 1..Len(body) : f[k] = d
           /\ \A k \in 1..Len(body) : body[k] = f[k].memeData
           /\ \A i, j \in 1..Len(body) : f[i].createdAt > f[j].createdAt => i < j

\* The step answers GET /likes/:userId for u.
likesListed(u) ==
  /\ dbResponse' # dbResponse
  /\ dbResponse'.req = [op |-> "listLikes", userId |-> u]

\* The step applies upsertLike o to a pair that has a record: a re-like.
relikeApplied(o) ==
  /\ o.op = "upsertLike" /\ o \in dbOps /\ o.pc = "find"
  /\ likesMatching(o.userId, o.memeId) # {}
  /\ dbOps' = dbOps \ {o}

\* C19 as stated: listLikes returns one snapshot per record of the user,
\* newest first, and once a re-like is applied every listing has the
\* re-liked post in front.
C19_RelikeToFront ==
  [][ /\ \A u \in DbUsers : likesListed(u) => ListedNewestFirst(u, dbResponse'.body)
      /\ \A o \in dbOps :
           relikeApplied(o)
             => \A order \in likesSorted(o.userId)' : order[1].memeId = o.memeId ]_vars

\* C19 amended: listLikes returns one snapshot per record of the user, newest
\* first by createdAt; a re-like gives the record the snapshot and the
\* createdAt of its request, which puts the post in front when no other like
\* of the user carries the same or a later createdAt.
C19_NewestFirst ==
  [][ /\ \A u \in DbUsers : likesListed(u) => ListedNewestFirst(u, dbResponse'.body)
      /\ \A o \in dbOps :
           relikeApplied(o)
             => \E d \in likesMatching(o.userId, o.memeId)' :
                  /\ d.memeData = o.memeData /\ d.createdAt = o.createdAt
                  /\ (\A e \in likesCol' : (e.userId = o.userId /\ e # d)
                                               => e.createdAt < d.createdAt)
                       => \A order \in likesSorted(o.userId)' : order[1] = d ]_vars

\* p2, liked in an earlier run, was liked again with a new snapshot after p1
\* had been liked, and GET /likes lists it before p1.
C19_Witness ==
  /\ dbResponse.req.op = "listLikes" /\ dbResponse.status = 200
  /\ dbResponse.body = << [id |-> "p2", rev |-> 2], [id |-> "p1", rev |-> 1] >>
  /\ \E d \in likesCol : d.id = 0 /\ d.memeId = "p2" /\ d.createdAt = 2
  /\ \E d \in likesCol : d.memeId = "p1" /\ d.createdAt = 1

\* C20: DELETE /likes/:userId/:memeId answers {success: true} whether the
\* pair has a record or not; without one the likes collection is left as it
\* is, with one exactly one record goes, a record of that pair.
C20_DeleteExactlyThat ==
  [][ \A u \in DbUsers, id \in DbPosts :
        DeleteLikes(u, id)
          => /\ dbResponse'.status = 200 /\ dbResponse'.body = "success"
             /\ likesMatching(u, id) = {} => likesCol' = likesCol
             /\ likesMatching(u, id) # {}
                  => \E d \in likesMatching(u, id) : likesCol' = likesCol \ {d} ]_vars

\* The like of p2 has been deleted while p1 was liked: the record of p1 is
\* still there and none of p2 is.
C20_Witness ==
  /\ dbResponse.req = [op |-> "deleteLike", userId |-> "u1", memeId |-> "p2"]
  /\ dbResponse.status = 200
  /\ likesMatching("u1", "p2") = {}
  /\ likesMatching("u1", "p1") # {}
  /\ dbNextId = 2

\* C21: toggleLike on a post that is not liked makes isLiked(post.id) true
\* in the very next state, with the upsert request of a signed-in user still
\* outstanding, and toggleLike on a liked post makes it false in the same
\* way; no outcome of the request changes the list afterwards.
C21_ToggleIsImmediate ==
  [][/\ \A id \in DbPosts :
          lcToggleLike(id) =>
            /\ isLiked(id)' = ~isLiked(id)
            /\ lcUser # NoUser =>
                 \E req \in lcWrites' \ lcWrites :
                   /\ req.meme.id = id
                   /\ req.op = IF isLiked(id) THEN "DELETE" ELSE "POST"
     /\ \A req \in lcWrites, outcome \in Outcomes :
          lcWriteSettles(req, outcome) => lcLikes' = lcLikes]_vars

\* A signed-in user has liked a post and unliked another, and both requests
\* are still outstanding.
C21_Witness ==
  \E r1, r2 \in lcWrites :
    /\ r1.op = "POST" /\ isLiked(r1.meme.id)
    /\ r2.op = "DELETE" /\ ~isLiked(r2.meme.id)

\* What 'likes_anonymous' holds, as loadLikes reads it.
anonymousLikes == IF lcAnon # <<>> THEN lcAnon[1] ELSE <<>>

\* The lists that GET /api/likes/:userId may answer for u.
storeLikes(u) ==
  { [k \in DOMAIN order |-> order[k].memeData] : order \in likesSorted(u) }

admittedInWindow(c, t) ==
  { i \in DOMAIN rpAdmitted[c] :
      rpAdmitted[c][i] <= t /\ t - rpAdmitted[c][i] < RATE_LIMIT_WINDOW }

\* The step answers its request with the rate-limit error.
deniedNow == rpResponse'.rid = rpCalls' /\ rpResponse'.status = 429

\* C24: a request is denied exactly when, counted with it, its client's
\* requests inside the last 60 seconds exceed 30; so no client has more than
\* 30 requests admitted in any window of 60 seconds, and a request leaves
\* the record of every other client as it is.
C24_SlidingWindow ==
  /\ [](\A c \in Clients, t \in Instants :
          Cardinality(admittedInWindow(c, t)) <= MAX_REQUESTS_PER_WINDOW)
  /\ [][\A c \in Clients, q \in Queries :
          ListingRequest(c, q) =>
            /\ deniedNow <=>
                 Cardinality(admittedInWindow(c, rpNow)) + 1 > MAX_REQUESTS_PER_WINDOW
            /\ \A other \in (Clients \cup EarlierClients) \ {c} :
                 rateLimiter'[other] = rateLimiter[other]]_vars

\* c1 has been admitted for the 30th time at instant 0 and is denied in the
\* last millisecond of that window.
C24_Witness ==
  /\ rpNow = 59999
  /\ rpResponse.rid = rpCalls
  /\ rpResponse.status = 429
  /\ rpAdmitted["c1"] = Stamps(MAX_REQUESTS_PER_WINDOW, 0)

\* C25: a listing request that the rate limiter denies is answered with
\* status 429 and a retry-after hint; no upstream call is made for it and
\* the response cache stays as it is.
C25_DeniedIsCheap ==
  [][\A c \in Clients, q \in Queries :
       ListingRequest(c, q) /\ limited(recentRequests(rateLimiter[c], rpNow)) =>
         /\ rpResponse'.rid = rpCalls'
         /\ rpResponse'.status = 429
         /\ rpResponse'.retryAfter > 0
         /\ rpUpstream' = rpUpstream
         /\ rpPending' = rpPending
         /\ cache' = cache]_vars

\* The second request has been denied, while the first, admitted, still
\* awaits the upstream source; the cache is full.
C25_Witness ==
  /\ rpResponse.rid = 2
  /\ rpResponse.status = 429
  /\ rpResponse.retryAfter = retryAfter
  /\ rpUpstream = {1}
  /\ Len(cache) = CacheCapacity

\* The entries stored for request q less than CACHE_DURATION ago.
storedFor(q) ==
  { i \in DOMAIN cache : cache[i].data.of = q /\ rpNow - cache[i].timestamp < CACHE_DURATION }

\* C26: an admitted listing request for which an entry of the same
\* (subreddit, sort, limit, after) was stored less than 5 minutes ago is
\* answered with the stored value and without a call of the upstream source;
\* any other admitted request calls the upstream source, and its result is
\* stored under its key with the current timestamp.
C26_CacheOrUpstream ==
  [][/\ \A c \in Clients, q \in Queries :
          ListingRequest(c, q) /\ ~deniedNow =>
            IF storedFor(q) # {}
              THEN /\ rpUpstream' = rpUpstream
                   /\ rpResponse'.rid = rpCalls'
                   /\ rpResponse'.status = 200
                   /\ \E i \in storedFor(q) : rpResponse'.body = cache[i].data
              ELSE rpUpstream' = rpUpstream \cup {rpCalls'}
     /\ \A p \in rpPending :
          UpstreamSettles(p, TRUE) =>
            \E i \in DOMAIN cache' :
              /\ cache'[i].key = getCacheKey(p.query.subreddit, p.query.sort,
                                             p.query.limit, p.query.after)
              /\ cache'[i].data = Fetched(p.query, rpNow)
              /\ cache'[i].timestamp = rpNow]_vars

\* The entries of the cache that the step removes.
evicted == { i \in DOMAIN cache : \A j \in DOMAIN cache' : cache'[j].key # cache[i].key }

\* C27: after every completed listing request the cache holds at most 100
\* entries; the entry that a store evicts is the one stored earliest and
\* never the one just stored, and serving an entry does not change its
\* place.
C27_EvictsOldest ==
  /\ [](Len(cache) <= CacheCapacity)
  /\ [][/\ \A p \in rpPending :
             UpstreamSettles(p, TRUE) =>
               \A i \in evicted :
                 /\ \A j \in DOMAIN cache : cache[i].timestamp <= cache[j].timestamp
                 /\ cache[i].key # p.key
        /\ \A c \in Clients, q \in Queries : ListingRequest(c, q) => cache' = cache]_vars

\* The step answers GET /likes/:userId or GET /seen/:userId/:feedKey of u
\* with the records of u and nothing else.
answersOwnRecords(u) ==
  /\ GetLikes(u) =>
       /\ Len(dbResponse'.body) = Cardinality({ d \in likesCol : d.userId = u })
       /\ \A i \in DOMAIN dbResponse'.body :
            \E d \in likesCol : d.userId = u /\ d.memeData = dbResponse'.body[i]
  /\ \A key \in DbFeedKeys :
       GetSeen(u, key) =>
         \A id \in DbPosts :
           dbResponse'.body[id] =
             Cardinality({ d \in seenCol : d.userId = u /\ d.feedKey = key /\ d.memeId = id })

\* C28: listLikes(u) and listSeenIds(u, k) return only records written for
\* u, and no like or seen operation issued for another user changes what
\* they return.
C28_UsersIsolated ==
  [][\A u \in StoreUsers :
       /\ answersOwnRecords(u)
       /\ \A v \in StoreUsers \ {u} :
            operationFor(v) =>
              /\ storeLikes(u)' = storeLikes(u)
              /\ \A key \in DbFeedKeys : seenListed(u, key)' = seenListed(u, key)]_vars

\* Both users have liked and seen p2, in their own records, and u2 has liked
\* it with another snapshot after u1.
C28_Witness ==
  /\ \E d1, d2 \in likesCol :
       /\ d1.userId = "u1" /\ d2.userId = "u2"
       /\ d1.memeId = "p2" /\ d2.memeId = "p2"
       /\ d1.memeData # d2.memeData
  /\ \E d1, d2 \in seenCol :
       /\ d1.userId = "u1" /\ d2.userId = "u2"
       /\ d1.memeId = "p2" /\ d2.memeId = "p2"

\* The outstanding page fetch ends: with a listing, with a body without
\* children, or with an error.
FetchEnds == FetchAny \/ FetchMalformed \/ FetchFails

\* C29: at most one page fetch is in flight, and the busy flag is set exactly
\* while one is; as long as it is outstanding, whatever triggers a fetch
\* issues no request and leaves the flag and the outstanding fetch alone;
\* when it ends the flag is cleared, so that a fetch in flight after that
\* step is the one which the load-more effect has issued since.
C29_OneFetchInFlight ==
  /\ [](Cardinality(fetchReq) <= 1 /\ (isLoadingRef <=> fetchReq # {}))
  /\ [][/\ (isLoadingRef /\ mounted') =>
             \/ isLoadingRef' /\ fetchReq' = fetchReq
             \/ FetchEnds
        /\ \/ ~isLoadingRef'
           \/ hasMore' /\ fetchReq' = {[props |-> props, afterToken |-> after']}
           \/ ~FetchEnds]_vars

\* The target has changed while the fetch for the previous one was
\* outstanding: the fetch of the reset effect has been dropped.
C29_Witness ==
  /\ mounted
  /\ isLoadingRef
  /\ \E req \in fetchReq : req.props # props

\* C30: whenever the feed target changes the loaded list becomes empty, the
\* cursor none, the active index 0 and the seen-id cache that of the new feed
\* (an anonymous visitor's stored set, a signed-in user's requested from the
\* store), and a fetch of the new target's first page, without cursor, is
\* issued, also when a fetch for the previous target is still in flight.
seenCacheReset(t) ==
  IF user = NoUser
    THEN seenIdsRef' = localStorage[getSeenStorageKey(t)]
    ELSE [userId |-> user, feedKey |-> getSeenStorageKey(t)] \in seenLoads'

resetState == memes' = <<>> /\ after' = NoCursor /\ currentIndex' = 0

firstPageIssued(t) == [props |-> t, afterToken |-> NoCursor] \in fetchReq'

C30_TargetChangeRestarts ==
  [][\A t \in Targets :
       (props # t /\ props' = t /\ mounted /\ mounted') =>
          /\ resetState
          /\ seenCacheReset(t)
          /\ firstPageIssued(t)]_vars

\* The active index is within the read-ahead window of the end of the list.
nearEnd == currentIndex >= Len(memes) - prefetchWindow

\* C31: whenever the active index is within 3 of the end of the loaded list
\* and the feed is not exhausted, a fetch is in flight after the step, and a
\* fetch that the step issued is the one of the current target with the
\* current cursor; an advance to an index further from the end issues none.
C31_ReadAhead ==
  [][ /\ (mounted' /\ nearEnd' /\ hasMore') =>
           /\ fetchReq' # {}
           /\ \/ fetchReq' = fetchReq
              \/ fetchReq' = {[props |-> props', afterToken |-> after']}
      /\ \/ nearEnd'
         \/ fetchReq' = fetchReq
         \/ ~(\E d \in {1, -1} : Advance(d))
    ]_vars

\* The list has more posts than the window, the feed is not exhausted, the
\* visitor has advanced and no fetch is in flight.
C31_Witness ==
  /\ mounted /\ hasMore /\ fetchReq = {}
  /\ currentIndex > 0 /\ ~nearEnd

\* The timers pending after the step were all started in it.
timerRestarted == \A c \in seenFlushTimer' : c.due = feedNow + flushDelay

\* C32: the flush timer is a debounce. At most one timer is pending; a step
\* with a new seen-mark leaves exactly the timer it started, due 3 seconds
\* later; a flush by the timer happens only when 3 seconds have passed since
\* the latest seen-mark; the teardown (unmount, change of target or user)
\* cancels the timer that was pending.
C32_Debounce ==
  /\ [](Cardinality(seenFlushTimer) <= 1)
  /\ [][ /\ (markLog' # markLog \/ lastMarkAt' # lastMarkAt)
             => (seenFlushTimer' # {} /\ timerRestarted)
         /\ \/ seenFlushTimer = {}
            \/ seenFlushTimer' # {}
            \/ feedNow >= lastMarkAt + flushDelay
            \/ ~TimerFires
         /\ ~mounted' => seenFlushTimer' = {}
         /\ (props' # props \/ user' # user) => timerRestarted
       ]_vars

\* A second mark came 2999 ms after the first; the timer has fired, after
\* the delay of the first mark's timer was over, and the batch was sent.
C32_Witness ==
  /\ mounted
  /\ seenFlushTimer = {}
  /\ lastMarkAt = flushDelay - 1
  /\ sentLog # {}
  /\ feedNow = 2 * flushDelay - 1

\* A cooldown is running: a backoff timer is pending and not yet due.
coolingDown == \E i \in DOMAIN mgBackoffTimers : feedNow < mgBackoffTimers[i]

\* The step issues a page request.
galleryRequestIssued == ~(mgReq' \subseteq mgReq)

\* Fetching is enabled: a load-more trigger that is not throttled gets past
\* the early returns of loadMoreMemes and fetchMemes.
fetchingEnabled ==
  /\ mgHasMore /\ ~mgIsLoading /\ mgAfter # NoCursor
  /\ galleryFetchIssues(mgAfter, mgFirstPageLoaded, mgFetchedUrlPaths, FALSE)

\* C33: after a page fetch failed with the rate-limit error no page request
\* is issued while the 5 minutes of the backoff run, and once they are over
\* fetching for the feed is enabled again: with hasMore on, nothing loading
\* and a cursor at hand, a load-more trigger that is not throttled issues
\* the request of the next page.
C33_CooldownThenResume ==
  /\ []((mgHasMore /\ ~mgIsLoading /\ mgAfter # NoCursor) => fetchingEnabled)
  /\ [][coolingDown => ~galleryRequestIssued]_vars

\* The call the step made, when it made one.
lastCall == dfReturned'[Len(dfReturned')]

\* C34: at most one request per url is in flight and the queue holds the
\* promise of a url exactly while its request is; a call for a url whose
\* request is pending returns that same pending promise and calls fetch()
\* not at all; after the request has settled, with a response or an error,
\* the entry is gone and the next call issues a new request.
C34_OneRequestPerUrl ==
  /\ [](/\ \A f1, f2 \in dfFetches : f1.url = f2.url => f1 = f2
        /\ \A url \in Urls :
             IF \E f \in dfFetches : f.url = url
               THEN \E f \in dfFetches : f.url = url /\ requestQueue[url] = f.promise
               ELSE requestQueue[url] = NoPromise
        /\ \A p \in DOMAIN dfSettled :
             dfSettled[p] = "pending" <=> \E f \in dfFetches : f.promise = p)
  /\ [][ Len(dfReturned') > Len(dfReturned) =>
           IF \E f \in dfFetches : f.url = lastCall.url
             THEN /\ \E f \in dfFetches : f.url = lastCall.url /\ f.promise = lastCall.promise
                  /\ dfIssued' = dfIssued
             ELSE /\ dfIssued' = Append(dfIssued, lastCall.url)
                  /\ lastCall.promise \notin DOMAIN dfSettled
       ]_vars

\* Two calls for one url got the same promise, the request failed, and the
\* next call for the url got a new one: two requests for three calls.
C34_Witness ==
  /\ Len(dfReturned) = 3
  /\ \A i \in 1..3 : dfReturned[i].url = dfReturned[1].url
  /\ dfReturned[1].promise = dfReturned[2].promise
  /\ dfReturned[3].promise # dfReturned[1].promise
  /\ dfSettled[dfReturned[1].promise] = "HTTP 500"
  /\ Len(dfIssued) = 2

\* C35: the step that handles a failed page fetch (retries exhausted) or a
\* malformed body leaves no request in flight: the feed does not fetch the
\* same cursor again by itself, and after it only a gesture (advance, Retry,
\* a change of target) or the handling of a listing issues a request.
C35_NoFetchAfterFailure ==
  [][ /\ \/ fetchReq' = {}
         \/ ~(FetchMalformed \/ FetchFails)
      /\ \/ fetchReq' = {}
         \/ fetchReq' = fetchReq
         \/ FetchMalformed \/ FetchFails
         \/ FetchAny
         \/ Retry
         \/ \E d \in {1, -1} : Advance(d)
         \/ \E t \in Targets : ChangeTarget(t)
    ]_vars

\* The post ids of the likes collection for u, and those of the local list.
storeLikedIds(u) == { d.memeId : d \in { e \in likesCol : e.userId = u } }
localLikedIds == { lcLikes[i].id : i \in DOMAIN lcLikes }

\* C36: no request having failed, once the load and every like and unlike
\* request of the signed-in client have completed, the post ids the Likes
\* Store holds for the user are the ids of the client's local list.
C36_StoreEqualsLocal ==
  (lcIsLoaded /\ lcUser # NoUser /\ lcLoads = {} /\ lcWrites = {})
    => storeLikedIds(lcUser) = localLikedIds

\* C37: every record sent in a seen write-batch (user, feedKey, id) is the
\* record of a seen-mark: the id was marked under that feedKey while that
\* user was signed in, also when the target or the user changed before the
\* timer fired.
C37_SentAsMarked == sentLog \subseteq markLog

\* The timestamps of client c's window at instant t: those of its entry of
\* the Map that isRateLimited counts, the ones younger than RATE_LIMIT_WINDOW.
windowOf(c, t) == recentRequests(rateLimiter[c], t)

\* C38: the window of a client holds exactly the timestamps of its admitted
\* requests of the last 60 seconds; an admitted request adds one timestamp,
\* served from the cache or from upstream, and a denied request adds none
\* and leaves the Map as it is.
C38_WindowIsAdmitted ==
  /\ [](\A c \in Clients :
          windowOf(c, rpNow) = recentRequests(rpAdmitted[c], rpNow))
  /\ [][\A c \in Clients, q \in Queries :
          ListingRequest(c, q) =>
            IF deniedNow
              THEN rateLimiter' = rateLimiter
              ELSE /\ rateLimiter'[c] = Append(windowOf(c, rpNow), rpNow)
                   /\ \/ rpUpstream' = rpUpstream \cup {rpCalls'}
                      \/ rpResponse'.rid = rpCalls' /\ rpResponse'.status = 200]_vars

\* c2 has been served from upstream and then, in the last millisecond of
\* that window, from the cache: its window holds both timestamps.
C38_Witness ==
  /\ rpNow = 59999
  /\ rpCalls = 2
  /\ rpUpstream = {1}
  /\ rpResponse.rid = 2
  /\ rpResponse.status = 200
  /\ rateLimiter["c2"] = <<0, 59999>>

\* The entries stored under key less than CACHE_DURATION ago.
freshFor(key) ==
  { i \in DOMAIN cache : cache[i].key = key /\ rpNow - cache[i].timestamp < CACHE_DURATION }

\* The step is the catch of the handler of request p: the upstream call has
\* failed, error answer, cache as it was.
failureAnswered(p) ==
  /\ rpResponse'.rid = p.rid
  /\ rpResponse'.status = 500
  /\ cache' = cache

\* C39 as stated: when the upstream call fails the handler answers with an
\* error and leaves the cache unchanged, and the next admitted request for
\* the same key calls upstream again: the cache then holds no entry of that
\* key that an admitted request would be served from.
C39_FailureThenUpstream ==
  [][\A p \in rpPending :
       UpstreamSettles(p, FALSE) =>
         /\ failureAnswered(p)
         /\ freshFor(p.key)' = {}]_vars

\* C39, amended: the cache stores only successful upstream results (every
\* entry is the listing fetched for its key at its timestamp); a failed
\* upstream call is answered with an error and leaves the cache unchanged;
\* and an admitted request calls upstream exactly when no entry of its key
\* was stored in the last 5 minutes, which after a failure is the case
\* unless another request for that key has succeeded meanwhile.
C39_FailureLeavesCache ==
  /\ [](\A i \in DOMAIN cache :
          /\ cache[i].data.at = cache[i].timestamp
          /\ cache[i].key = getCacheKey(cache[i].data.of.subreddit, cache[i].data.of.sort,
                                        cache[i].data.of.limit, cache[i].data.of.after))
  /\ [][/\ \A p \in rpPending : UpstreamSettles(p, FALSE) => failureAnswered(p)
        /\ \A c \in Clients, q \in Queries :
             ListingRequest(c, q) /\ ~deniedNow =>
               (rpUpstream' = rpUpstream \cup {rpCalls'}
                  <=> freshFor(getCacheKey(q.subreddit, q.sort, q.limit, q.after)) = {})
       ]_vars

\* The first request for r/memes has failed upstream and was answered 500;
\* nothing is cached, and the second request is at the upstream source.
C39_Witness ==
  /\ rpResponse.rid = 1
  /\ rpResponse.status = 500
  /\ cache = <<>>
  /\ rpUpstream = {1, 2}
  /\ \E p \in rpPending : p.rid = 2

\* C40: the local like list holds at most one entry per post id, whatever
\* was toggled and loaded; addLike of a post that is liked leaves the list
\* as it is, and removeLike leaves no entry of the id.
C40_OneEntryPerPost ==
  /\ \A i, j \in DOMAIN lcLikes : lcLikes[i].id = lcLikes[j].id => i = j
  /\ \A id \in DbPosts :
       /\ isLiked(id) => likesWith(lcLikes, likeEntry(id)) = lcLikes
       /\ \A k \in DOMAIN likesWithout(lcLikes, id) : likesWithout(lcLikes, id)[k].id # id

====
